---- MODULE Spec2Model ----
(***************************************************************************)
(* A model of htcondenser's job classes (core/job_classes.py): JobSet,     *)
(* FileMirror, Job and DAGMan.                                             *)
(*                                                                         *)
(* Python strings are sequences of one-character strings, so that prefix   *)
(* tests, basenames, joins and splits are computed rather than assumed.    *)
(* The options and keywords the code itself emits ("--exe", "--args",      *)
(* "JOB", ...) are single elements of such a sequence; the lines that      *)
(* generate_file_contents adds are written out in characters, as its       *)
(* regular expression reads them.                                          *)
(***************************************************************************)
EXTENDS Integers, Sequences, FiniteSets, TLC

VARIABLES
    jobsets,    \* JobSet objects: id -> fields (jobs = OrderedDict name -> Job)
    jobobjs,    \* Job objects: id -> fields
    dag,        \* DAGMan.jobs: OrderedDict name -> node, as a sequence of nodes
    fs,         \* external world: directories made and files copied to HDFS
    pc,         \* position inside a running loop of a DAGMan method
    last        \* the last call made and how it ended

vars == <<jobsets, jobobjs, dag, fs, pc, last>>

-----------------------------------------------------------------------------
(* Python values *)

\* None, kept comparable with strings: a sequence no string of chars equals.
None == <<"<None>">>

\* None in a field that otherwise holds a list of strings
NoneList == <<None>>

\* Python truthiness of an optional string, and of an optional list of strings.
Truthy(x) == x # None /\ x # <<>>
TruthyList(x) == x # NoneList /\ x # <<>>

SP == " "
SLASH == "/"
NL == "\n"

\* str.startswith(prefix)
StartsWith(s, prefix) ==
    /\ Len(s) >= Len(prefix)
    /\ SubSeq(s, 1, Len(prefix)) = prefix

\* str.endswith(suffix)
EndsWith(s, suffix) ==
    /\ Len(s) >= Len(suffix)
    /\ SubSeq(s, Len(s) - Len(suffix) + 1, Len(s)) = suffix

\* The literal the code tests paths against: '/hdfs'.
HDFS_PREFIX == <<"/", "h", "d", "f", "s">>

\* os.path.basename(p): what follows the last '/'.
basename(p) ==
    LET slashes == {i \in 1..Len(p) : p[i] = SLASH}
        cut == IF slashes = {} THEN 0
               ELSE CHOOSE i \in slashes : \A k \in slashes : k <= i
    IN  SubSeq(p, cut + 1, Len(p))

\* os.path.join(a, b) for two components (posixpath).
path_join(a, b) ==
    IF StartsWith(b, <<SLASH>>) THEN b
    ELSE IF a = <<>> \/ EndsWith(a, <<SLASH>>) THEN a \o b
    ELSE a \o <<SLASH>> \o b

\* sep.join(parts)
RECURSIVE str_join(_, _)
str_join(sep, parts) ==
    IF parts = <<>> THEN <<>>
    ELSE IF Len(parts) = 1 THEN parts[1]
    ELSE parts[1] \o sep \o str_join(sep, Tail(parts))

\* str.split(): the maximal runs of non-blank characters.
RECURSIVE str_split(_)
str_split(s) ==
    IF s = <<>> THEN <<>>
    ELSE IF Head(s) = SP THEN str_split(Tail(s))
    ELSE LET blanks == {i \in 1..Len(s) : s[i] = SP}
             stop == IF blanks = {} THEN Len(s) + 1
                     ELSE CHOOSE i \in blanks : \A k \in blanks : i <= k
         IN  <<SubSeq(s, 1, stop - 1)>> \o str_split(SubSeq(s, stop, Len(s)))

\* i such that seq[i] = x for the first time, 0 when absent
IndexOf(seq, x) ==
    IF \E i \in 1..Len(seq) : seq[i] = x
    THEN CHOOSE i \in 1..Len(seq) : seq[i] = x /\ \A k \in 1..(i - 1) : seq[k] # x
    ELSE 0

Range(seq) == {seq[i] : i \in 1..Len(seq)}

-----------------------------------------------------------------------------
(* Object identities *)

SetIds == {"s1", "s2"}
NoSet == "None"          \* Job._manager = None
NotAJob == "not_a_job"   \* an argument that is no Job instance

\* FileMirror(original, hdfs, worker)
FileMirror(original, hdfs, worker) ==
    [original |-> original, hdfs |-> hdfs, worker |-> worker]

\* OrderedDict helpers: an ordered mapping is a sequence of entries with a
\* name field, in insertion order.
Keys(od) == {od[i].name : i \in 1..Len(od)}
KeySeq(od) == [i \in 1..Len(od) |-> od[i].name]
Lookup(od, name) == od[CHOOSE i \in 1..Len(od) : od[i].name = name]

\* os.path.abspath of a relative directory, from the working directory
CWD == <<"/", "w">>
abspath(d) == IF StartsWith(d, <<SLASH>>) THEN d ELSE path_join(CWD, d)

-----------------------------------------------------------------------------
(* JobSet.__init__ *)

\* The constructor's keyword arguments, as a record; a field left out by the
\* caller holds the default of the signature.
\* other_args is None or a dict, here the sequence of its items <<key, value>>
OtherArgsNone == [kind |-> "none", items |-> <<>>]
OtherArgs(items) == [kind |-> "dict", items |-> items]

JobSetDefaults ==
    [exe |-> <<".", "/", "e">>, copy_exe |-> TRUE, setup_script |-> None,
     filename |-> <<"j", ".", "c">>,
     out_dir |-> <<"l">>, out_file |-> <<"o">>,
     err_dir |-> <<"l">>, err_file |-> <<"r">>,
     log_dir |-> <<"l">>, log_file |-> <<"g">>,
     cpus |-> 1, memory |-> <<"1", "M">>, disk |-> <<"1", "M">>,
     transfer_hdfs_input |-> TRUE, share_exe_setup |-> FALSE,
     transfer_input_files |-> NoneList, transfer_output_files |-> NoneList,
     hdfs_store |-> None, dag_mode |-> FALSE, other_args |-> OtherArgsNone]

\* Result of JobSet(**a): the error raised, or the new object; and the
\* directories the constructor makes.
JobSet_init_err(a) ==
    IF TruthyList(a.transfer_output_files) /\ a.transfer_input_files = NoneList
    THEN "TypeError"                 \* None[:]
    ELSE IF \E f \in {a.out_file, a.err_file, a.log_file} : f \in {<<>>, <<".">>}
    THEN "OSError"
    ELSE "none"

JobSet_init(a) ==
    LET tif == IF ~TruthyList(a.transfer_output_files) THEN <<>>
               ELSE a.transfer_input_files
        tof == IF ~TruthyList(a.transfer_output_files) THEN <<>>
               ELSE a.transfer_output_files
    IN  [exe |-> a.exe, copy_exe |-> a.copy_exe, setup_script |-> a.setup_script,
         filename |-> a.filename,
         out_dir |-> abspath(a.out_dir), out_file |-> a.out_file,
         err_dir |-> abspath(a.err_dir), err_file |-> a.err_file,
         log_dir |-> abspath(a.log_dir), log_file |-> a.log_file,
         cpus |-> IF a.cpus >= 1 THEN a.cpus ELSE 1,
         memory |-> a.memory, disk |-> a.disk,
         transfer_hdfs_input |-> a.transfer_hdfs_input,
         share_exe_setup |-> a.share_exe_setup,
         transfer_input_files |-> tif, transfer_output_files |-> tof,
         hdfs_store |-> a.hdfs_store, dag_mode |-> a.dag_mode,
         other_job_args |-> a.other_args,
         jobs |-> <<>>]

JobSet_init_dirs(a) ==
    {d \in {abspath(a.out_dir), abspath(a.err_dir), abspath(a.log_dir), a.hdfs_store} :
        Truthy(d)}

-----------------------------------------------------------------------------
(* Job.__init__ *)

\* args is None, a list of tokens, or one string that is split on blanks.
ArgsNone == [kind |-> "none", v |-> <<>>]
ArgsList(l) == [kind |-> "list", v |-> l]
ArgsStr(s) == [kind |-> "str", v |-> <<s>>]

Job_init(name, args, input_files, output_files, quantity, hdfs_mirror_dir) ==
    [manager |-> NoSet,
     name |-> name,
     args |-> IF args.kind = "str" THEN str_split(args.v[1]) ELSE args.v,
     input_files |-> IF TruthyList(input_files) THEN input_files ELSE <<>>,
     output_files |-> IF TruthyList(output_files) THEN output_files ELSE <<>>,
     quantity |-> quantity,
     input_file_mirrors |-> <<>>,
     output_file_mirrors |-> <<>>,
     hdfs_mirror_dir |-> hdfs_mirror_dir]

-----------------------------------------------------------------------------
(* Job.manager setter and the mirror set-up it triggers *)

\* os.path.join(a, b) raises when a is None and b is relative.
join_raises(a, b) == a = None /\ ~StartsWith(b, <<SLASH>>)

\* The mirror made for one input file (the body of the loop of
\* setup_input_file_mirrors).
input_mirror_dir(m, ifile, hdfs_mirror_dir) ==
    IF ifile \in {m.exe, m.setup_script} /\ m.share_exe_setup
    THEN m.hdfs_store
    ELSE hdfs_mirror_dir

\* A mirror made without the test for the HDFS prefix
input_mirror_always_joined(m, ifile, hdfs_mirror_dir) ==
    FileMirror(ifile,
               path_join(input_mirror_dir(m, ifile, hdfs_mirror_dir), basename(ifile)),
               basename(ifile))

input_mirror(m, ifile, hdfs_mirror_dir) ==
    FileMirror(ifile,
               IF StartsWith(ifile, HDFS_PREFIX) THEN ifile
               ELSE path_join(input_mirror_dir(m, ifile, hdfs_mirror_dir),
                              basename(ifile)),
               basename(ifile))

input_mirror_raises(m, ifile, hdfs_mirror_dir) ==
    /\ ~StartsWith(ifile, HDFS_PREFIX)
    /\ join_raises(input_mirror_dir(m, ifile, hdfs_mirror_dir), basename(ifile))

\* setup_input_file_mirrors: appends one mirror per input file, until a join
\* raises.  Gives the mirrors appended and whether the loop raised.
RECURSIVE setup_input_file_mirrors(_, _, _)
setup_input_file_mirrors(m, files, hdfs_mirror_dir) ==
    IF files = <<>> THEN [mirrors |-> <<>>, err |-> "none"]
    ELSE IF input_mirror_raises(m, Head(files), hdfs_mirror_dir)
    THEN [mirrors |-> <<>>, err |-> "AttributeError"]
    ELSE LET rest == setup_input_file_mirrors(m, Tail(files), hdfs_mirror_dir)
         IN  [mirrors |-> <<input_mirror(m, Head(files), hdfs_mirror_dir)>>
                          \o rest.mirrors,
              err |-> rest.err]

\* The mirror made for one output file.
output_mirror(ofile, hdfs_mirror_dir) ==
    FileMirror(ofile,
               IF StartsWith(ofile, HDFS_PREFIX) THEN ofile
               ELSE path_join(hdfs_mirror_dir, basename(ofile)),
               basename(ofile))

\* setup_output_file_mirrors: one mirror per output file
setup_output_file_mirrors(files, hdfs_mirror_dir) ==
    [i \in 1..Len(files) |-> output_mirror(files[i], hdfs_mirror_dir)]

\* job.manager = s, where m holds the fields of JobSet s.  Gives the Job
\* after the assignment and the error raised on the way, if any.
manager_setter(job, s, m) ==
    LET files == job.input_files
                 \o (IF m.copy_exe THEN <<m.exe>> ELSE <<>>)
                 \o (IF Truthy(m.setup_script) THEN <<m.setup_script>> ELSE <<>>)
        j1 == [job EXCEPT !.manager = s, !.input_files = files]
    IN  IF ~Truthy(job.hdfs_mirror_dir) /\ join_raises(m.hdfs_store, job.name)
        THEN [job |-> j1, err |-> "AttributeError"]
        ELSE
        LET dir == IF ~Truthy(job.hdfs_mirror_dir)
                   THEN path_join(m.hdfs_store, job.name)
                   ELSE job.hdfs_mirror_dir
            ins == setup_input_file_mirrors(m, files, dir)
            j2 == [j1 EXCEPT !.hdfs_mirror_dir = dir,
                             !.input_file_mirrors = @ \o ins.mirrors]
        IN  IF ins.err # "none"
            THEN [job |-> j2, err |-> ins.err]
            ELSE [job |-> [j2 EXCEPT !.output_file_mirrors =
                                @ \o setup_output_file_mirrors(job.output_files, dir)],
                  err |-> "none"]

-----------------------------------------------------------------------------
(* The record of the last call *)

NoCall == [op |-> "none", on |-> "", job |-> "", name |-> <<>>, err |-> "none",
           out |-> <<>>, names |-> <<>>, calls |-> <<>>,
           template |-> <<>>, dag_mode |-> FALSE]

Call(op, on, job, name, err) ==
    [NoCall EXCEPT !.op = op, !.on = on, !.job = job, !.name = name, !.err = err]

\* Where the program is: idle between calls, or inside a loop of DAGMan.  entry
\* is the method of DAGMan (write or submit) the loop runs for, "" when the
\* method that loops was called directly.
Idle == [at |-> "idle", job_name |-> <<>>, parents |-> <<>>, caller |-> "", idx |-> 0,
         entry |-> ""]

-----------------------------------------------------------------------------
(* JobSet.add_job *)

\* (mutant) the test for a name already present left out
name_taken_never(name, od) == FALSE

\* `job.name in self.jobs`, the test both add_job methods start with
name_taken(name, od) == name \in Keys(od)

\* The objects after self.add_job(job) on JobSet s, and the error raised.
add_job_result(sets, objs, s, j) ==
    IF j = NotAJob
    THEN [sets |-> sets, objs |-> objs, err |-> "TypeError"]
    ELSE IF name_taken(objs[j].name, sets[s].jobs)
    THEN [sets |-> sets, objs |-> objs, err |-> "KeyError"]
    ELSE LET set == manager_setter(objs[j], s, sets[s])
         IN  [sets |-> [sets EXCEPT ![s].jobs =
                           Append(@, [name |-> objs[j].name, job |-> j])],
              objs |-> [objs EXCEPT ![j] = set.job],
              err |-> set.err]

JobSet_add_job(s, j) ==
    /\ pc.at = "idle"
    /\ LET r == add_job_result(jobsets, jobobjs, s, j)
       IN  /\ jobsets' = r.sets
           /\ jobobjs' = r.objs
           /\ last' = Call("JobSet.add_job", s, j,
                           IF j = NotAJob THEN <<>> ELSE jobobjs[j].name, r.err)
    /\ UNCHANGED <<dag, fs, pc>>

-----------------------------------------------------------------------------
(* Job.generate_job_arg_str *)

\* for i, arg in enumerate(new_args): if arg in olds: new_args[i] = new
replace_args(new_args, olds, new) ==
    [i \in 1..Len(new_args) |-> IF new_args[i] \in olds THEN new ELSE new_args[i]]

\* The loop over input_file_mirrors with every mirror staged in, whatever
\* transfer_hdfs_input is.
RECURSIVE input_pass_copies_all(_, _, _)
input_pass_copies_all(mirrors, transfer_hdfs_input, acc) ==
    IF mirrors = <<>> THEN acc
    ELSE LET ifile == Head(mirrors)
         IN  input_pass_copies_all(Tail(mirrors), transfer_hdfs_input,
                 [new_args |-> replace_args(acc.new_args, {ifile.original},
                                  IF transfer_hdfs_input THEN ifile.worker
                                  ELSE ifile.hdfs),
                  job_args |-> acc.job_args \o
                               <<<<"--copyToLocal">>, ifile.hdfs, ifile.worker>>])

\* The loop over input_file_mirrors: the arguments rewritten so far and the
\* --copyToLocal options added so far.
RECURSIVE input_pass(_, _, _)
input_pass(mirrors, transfer_hdfs_input, acc) ==
    IF mirrors = <<>> THEN acc
    ELSE LET ifile == Head(mirrors)
             copy == <<<<"--copyToLocal">>, ifile.hdfs, ifile.worker>>
         IN  input_pass(Tail(mirrors), transfer_hdfs_input,
                 IF transfer_hdfs_input
                 THEN [new_args |-> replace_args(acc.new_args, {ifile.original},
                                                 ifile.worker),
                       job_args |-> acc.job_args \o copy]
                 ELSE [new_args |-> replace_args(acc.new_args, {ifile.original},
                                                 ifile.hdfs),
                       job_args |-> acc.job_args \o
                            (IF ~StartsWith(ifile.original, HDFS_PREFIX)
                             THEN copy ELSE <<>>)])

\* The loop over output_file_mirrors.
RECURSIVE output_pass(_, _)
output_pass(mirrors, acc) ==
    IF mirrors = <<>> THEN acc
    ELSE LET ofile == Head(mirrors)
         IN  output_pass(Tail(mirrors),
                 [new_args |-> replace_args(acc.new_args,
                                            {ofile.original, ofile.hdfs},
                                            ofile.worker),
                  job_args |-> acc.job_args \o
                               <<<<"--copyFromLocal">>, ofile.worker, ofile.hdfs>>])

\* The list job_args at the end of generate_job_arg_str, for Job fields job
\* and manager fields m.
job_arg_list(job, m) ==
    LET setup == IF Truthy(m.setup_script)
                 THEN <<<<"--setup">>, basename(m.setup_script)>> ELSE <<>>
        ins == input_pass(job.input_file_mirrors, m.transfer_hdfs_input,
                          [new_args |-> job.args, job_args |-> setup])
        outs == output_pass(job.output_file_mirrors, ins)
        exe == <<<<"--exe">>, basename(m.exe)>>
    IN  outs.job_args \o exe \o
        (IF outs.new_args # <<>> THEN <<<<"--args">>>> \o outs.new_args ELSE <<>>)

\* The list new_args at the end of generate_job_arg_str.
final_new_args(job, m) ==
    output_pass(job.output_file_mirrors,
                input_pass(job.input_file_mirrors, m.transfer_hdfs_input,
                           [new_args |-> job.args, job_args |-> <<>>])).new_args

\* new_args = self.args without the copy: the writes reach self.args.
args_after_render_alias(self_args, new_args) == new_args

\* new_args = self.args[:] is a copy: the writes to new_args do not reach
\* self.args.  Gives self.args after the call.
args_after_render(self_args, new_args) == self_args

\* The string returned: ' '.join(job_args)
generate_job_arg_str(job, m) == str_join(<<SP>>, job_arg_list(job, m))

Job_generate_job_arg_str(j) ==
    /\ pc.at = "idle"
    /\ IF jobobjs[j].manager = NoSet
       THEN /\ last' = Call("Job.generate_job_arg_str", "", j, jobobjs[j].name,
                            "AttributeError")
            /\ UNCHANGED jobobjs
       ELSE LET job == jobobjs[j]
                m == jobsets[job.manager]
            IN  /\ last' = [Call("Job.generate_job_arg_str", job.manager, j,
                                 job.name, "none")
                            EXCEPT !.out = generate_job_arg_str(job, m)]
                /\ jobobjs' = [jobobjs EXCEPT ![j].args =
                                  args_after_render(job.args, final_new_args(job, m))]
    /\ UNCHANGED <<jobsets, dag, fs, pc>>

-----------------------------------------------------------------------------
(* JobSet.generate_file_contents *)

\* DAGMan.JOB_VAR_NAME, which the placeholder of DAG mode names
JOB_VAR_NAME == <<"jobOpts">>

\* The characters \w of a regular expression matches
WordChars ==
    {"a", "b", "c", "d", "e", "f", "g", "h", "i", "j", "k", "l", "m", "n", "o", "p",
     "q", "r", "s", "t", "u", "v", "w", "x", "y", "z",
     "A", "B", "C", "D", "E", "F", "G", "H", "I", "J", "K", "L", "M", "N", "O", "P",
     "Q", "R", "S", "T", "U", "V", "W", "X", "Y", "Z",
     "0", "1", "2", "3", "4", "5", "6", "7", "8", "9", "_"}

\* '%d' % n and str(n), for n >= 0
RECURSIVE int_str(_)
int_str(n) ==
    LET digit == <<"0", "1", "2", "3", "4", "5", "6", "7", "8", "9">>
    IN  IF n < 10 THEN <<digit[n + 1]>>
        ELSE int_str(n \div 10) \o <<digit[(n % 10) + 1]>>

\* s.replace(old, new), old not empty: every occurrence, from the left,
\* without overlap
str_replace(s, old, new) ==
    LET starts == {i \in 1..(Len(s) - Len(old) + 1) :
                      SubSeq(s, i, i + Len(old) - 1) = old}
        RECURSIVE from(_)
        from(i) ==
            LET next == {k \in starts : k >= i}
                k == CHOOSE k \in next : \A n \in next : k <= n
            IN  IF next = {} THEN SubSeq(s, i, Len(s))
                ELSE SubSeq(s, i, k - 1) \o new \o from(k + Len(old))
    IN  from(1)

\* Where the match of {\w*} that starts at s[i] ends, 0 when there is none
token_end(s, i) ==
    LET stops == {k \in (i + 1)..Len(s) : s[k] \notin WordChars}
        stop == IF stops = {} THEN 0
                ELSE CHOOSE k \in stops : \A n \in stops : k <= n
    IN  IF s[i] = "{" /\ stop # 0 /\ s[stop] = "}" THEN stop ELSE 0

\* re.findall(r'{\w*}', s): the matches from the left, without overlap
findall_tokens(s) ==
    LET starts == {i \in 1..Len(s) : token_end(s, i) # 0}
        RECURSIVE from(_)
        from(i) ==
            LET next == {k \in starts : k >= i}
                k == CHOOSE k \in next : \A n \in next : k <= n
            IN  IF next = {} THEN <<>>
                ELSE <<SubSeq(s, k, token_end(s, k))>> \o from(token_end(s, k) + 1)
    IN  from(1)

\* for tok in leftover_tokens: template = template.replace(tok, '')
RECURSIVE remove_tokens(_, _)
remove_tokens(template, leftover_tokens) ==
    IF leftover_tokens = <<>> THEN template
    ELSE remove_tokens(str_replace(template, Head(leftover_tokens), <<>>),
                       Tail(leftover_tokens))

\* os.path.join(os.path.dirname(__file__), '../templates/condor_worker.py')
worker_script == <<"<dirname>", "/", ".", ".", "/", "t", "/", "w", ".", "p", "y">>

\* '\n'.join('%s = %s' % (str(k), str(v)) for k, v in other_job_args.iteritems()),
\* or None
other_args_str(m) ==
    IF m.other_job_args.kind = "dict" /\ m.other_job_args.items # <<>>
    THEN str_join(<<NL>>, [i \in 1..Len(m.other_job_args.items) |->
                              m.other_job_args.items[i][1] \o <<SP, "=", SP>>
                              \o m.other_job_args.items[i][2]])
    ELSE None

\* replacement_dict, as the sequence of its items <<pattern, replacement>>.
\* No replacement of the model holds a pattern, so that the order in which
\* the dict gives its items does not matter.
replacement_dict(m) ==
    <<
      <<<<"E", "X", "E", "_", "W", "R", "A", "P", "P", "E", "R">>, worker_script>>,
      <<<<"S", "T", "D", "O", "U", "T">>, path_join(m.out_dir, m.out_file)>>,
      <<<<"S", "T", "D", "E", "R", "R">>, path_join(m.err_dir, m.err_file)>>,
      <<<<"S", "T", "D", "L", "O", "G">>, path_join(m.log_dir, m.log_file)>>,
      <<<<"C", "P", "U", "S">>, int_str(m.cpus)>>,
      <<<<"M", "E", "M", "O", "R", "Y">>, m.memory>>,
      <<<<"D", "I", "S", "K">>, m.disk>>,
      <<<<"T", "R", "A", "N", "S", "F", "E", "R", "_", "I", "N", "P", "U", "T", "_",
          "F", "I", "L", "E", "S">>,
        str_join(<<",">>, m.transfer_input_files)>>,
      <<<<"T", "R", "A", "N", "S", "F", "E", "R", "_", "O", "U", "T", "P", "U", "T", "_",
          "F", "I", "L", "E", "S">>,
        str_join(<<",">>, m.transfer_input_files)>>,
      <<<<"O", "T", "H", "E", "R", "_", "A", "R", "G", "S">>, other_args_str(m)>>
    >>

\* The loop over replacement_dict: `if replacement:` then replace {pattern}
RECURSIVE make_replacements(_, _)
make_replacements(template, items) ==
    IF items = <<>> THEN template
    ELSE make_replacements(
             IF Truthy(Head(items)[2])
             THEN str_replace(template, <<"{">> \o Head(items)[1] \o <<"}">>,
                              Head(items)[2])
             ELSE template,
             Tail(items))

\* (mutant) the lines of a job without its queue directive
job_lines_without_queue(name, arg_str, quantity) ==
    <<NL, "#", SP>> \o name \o <<NL>>
    \o <<"a", "r", "g", "u", "m", "e", "n", "t", "s", "=", "\"">> \o arg_str \o <<"\"", NL>>

\* What the loop over self.jobs adds for one job
job_lines(name, arg_str, quantity) ==
    <<NL, "#", SP>> \o name \o <<NL>>
    \o <<"a", "r", "g", "u", "m", "e", "n", "t", "s", "=", "\"">> \o arg_str \o <<"\"", NL>>
    \o <<NL>> \o <<"q", "u", "e", "u", "e", SP>> \o int_str(quantity) \o <<NL>>

\* What is added to the template under `# Add jobs`
added_jobs(m, objs, sets, dag_mode) ==
    IF dag_mode
    THEN <<"a", "r", "g", "u", "m", "e", "n", "t", "s", "=", "$", "(">>
         \o JOB_VAR_NAME \o <<")", NL>>
         \o <<"q", "u", "e", "u", "e">> \o <<NL>>
    ELSE LET RECURSIVE all(_)
             all(jobs) ==
                 IF jobs = <<>> THEN <<>>
                 ELSE LET job == objs[Head(jobs).job]
                      IN  job_lines(Head(jobs).name,
                                    generate_job_arg_str(job, sets[job.manager]),
                                    job.quantity)
                          \o all(Tail(jobs))
         IN  all(m.jobs)

\* The string generate_file_contents returns for a JobSet that has jobs
generate_file_contents(m, objs, sets, template, dag_mode) ==
    LET filled == make_replacements(template, replacement_dict(m))
                  \o added_jobs(m, objs, sets, dag_mode)
    IN  remove_tokens(filled, findall_tokens(filled))

\* The Jobs after the renders of the loop over self.jobs
RECURSIVE objs_after_renders(_, _, _)
objs_after_renders(objs, sets, jobs) ==
    IF jobs = <<>> THEN objs
    ELSE LET j == Head(jobs).job
         IN  objs_after_renders(
                 [objs EXCEPT ![j].args =
                     args_after_render(@, final_new_args(objs[j],
                                                         sets[objs[j].manager]))],
                 sets, Tail(jobs))

JobSet_generate_file_contents(s, template, dag_mode) ==
    /\ pc.at = "idle"
    /\ LET m == jobsets[s]
           call == [Call("JobSet.generate_file_contents", s, "", <<>>, "none")
                    EXCEPT !.template = template, !.dag_mode = dag_mode]
       IN  IF Len(m.jobs) = 0
           THEN /\ last' = [call EXCEPT !.err = "IndexError"]
                /\ UNCHANGED jobobjs
           ELSE /\ last' = [call EXCEPT !.out = generate_file_contents(
                                             m, jobobjs, jobsets, template, dag_mode)]
                /\ jobobjs' = IF dag_mode THEN jobobjs
                              ELSE objs_after_renders(jobobjs, jobsets, m.jobs)
    /\ UNCHANGED <<jobsets, dag, fs, pc>>

-----------------------------------------------------------------------------
(* Job.transfer_to_hdfs *)

\* The external calls a method makes, in order.
makedirs(d) == [fn |-> "os.makedirs", a |-> d, b |-> <<>>]
cp_hdfs(src, dest) == [fn |-> "cp_hdfs", a |-> src, b |-> dest]

\* (mutant) the shared executable and setup script are not skipped
transfer_skips_unchanged_only(ifile, m) == ifile.original = ifile.hdfs

\* Whether the loop of transfer_to_hdfs skips this mirror.
transfer_skips(ifile, m) ==
    \/ ifile.original = ifile.hdfs
    \/ (m.share_exe_setup /\ ifile.original \in {m.exe, m.setup_script})

files_to_transfer(job, m) ==
    SelectSeq(job.input_file_mirrors, LAMBDA ifile : ~transfer_skips(ifile, m))

\* The calls of one complete Job.transfer_to_hdfs, given the directories that
\* exist.
job_transfer_calls(job, m, dirs) ==
    LET todo == files_to_transfer(job, m)
    IN  (IF Len(todo) > 0 /\ job.hdfs_mirror_dir \notin dirs
         THEN <<makedirs(job.hdfs_mirror_dir)>> ELSE <<>>)
        \o [i \in 1..Len(todo) |-> cp_hdfs(todo[i].original, todo[i].hdfs)]

\* The state of the external world after a sequence of calls that succeeded.
fs_after(f, calls) ==
    [dirs |-> f.dirs \cup {calls[i].a : i \in {k \in 1..Len(calls) :
                                                calls[k].fn = "os.makedirs"}},
     files |-> f.files \cup {calls[i].b : i \in {k \in 1..Len(calls) :
                                                  calls[k].fn = "cp_hdfs"}}
                       \cup {calls[i].a : i \in {k \in 1..Len(calls) :
                                                   calls[k].fn = "write"}}]

\* An external call may fail: the method then stops at that call.  n is the
\* number of calls that succeed before one fails; no call fails when the method
\* makes n calls or fewer.
Job_transfer_to_hdfs(j, n) ==
    /\ pc.at = "idle"
    /\ jobobjs[j].manager # NoSet \/ n = 0
    /\ LET job == jobobjs[j]
           calls == IF job.manager = NoSet THEN <<>>
                    ELSE job_transfer_calls(job, jobsets[job.manager], fs.dirs)
           ok == IF n < Len(calls) THEN n ELSE Len(calls)
       IN  /\ fs' = fs_after(fs, SubSeq(calls, 1, ok))
           /\ last' = [Call("Job.transfer_to_hdfs", job.manager, j, job.name,
                            IF n < Len(calls) THEN "ExternalCommandError" ELSE "none")
                       EXCEPT !.calls = SubSeq(calls, 1,
                                               IF n < Len(calls) THEN n + 1 ELSE ok)]
    /\ UNCHANGED <<jobsets, jobobjs, dag, pc>>

-----------------------------------------------------------------------------
(* DAGMan *)

\* DAGMan.__init__ with its default arguments
DAG_filename == <<"j", ".", "d">>
DAG_status_file == <<"j", ".", "s">>
DAG_status_update_period == <<"3", "0">>

\* The values a caller passes as `requires`: nothing, one name, one Job, a
\* list or tuple of names and Jobs, a set of them, or a value of another type.
ReqNone == [kind |-> "none", items |-> <<>>]
ItemStr(name) == [kind |-> "str", name |-> name, job |-> ""]
ItemJob(j) == [kind |-> "job", name |-> <<>>, job |-> j]
ItemOther == [kind |-> "other", name |-> <<>>, job |-> ""]
ReqStr(name) == [kind |-> "str", items |-> <<ItemStr(name)>>]
ReqJob(j) == [kind |-> "job", items |-> <<ItemJob(j)>>]
ReqList(items) == [kind |-> "list", items |-> items]
ReqSet(items) == [kind |-> "set", items |-> items]
ReqOther == [kind |-> "other", items |-> <<ItemOther>>]

\* `if requires:` - None, '' and empty collections are false.
requires_truthy(requires) ==
    /\ requires.kind # "none"
    /\ requires.items # <<>>
    /\ requires.kind = "str" => requires.items[1].name # <<>>

\* The name an item of a collection stands for.
item_name(it, objs) == IF it.kind = "job" THEN objs[it.job].name ELSE it.name

\* hierarchy_list as the branches of add_job build it, and the error raised
\* while building it.
hierarchy_list(requires, objs) ==
    IF ~requires_truthy(requires) THEN [list |-> <<>>, err |-> "none"]
    ELSE IF requires.kind \in {"str", "job"}
    THEN [list |-> <<item_name(requires.items[1], objs)>>, err |-> "none"]
    ELSE IF requires.kind = "list"     \* hasattr(requires, '__getitem__')
    THEN IF \E i \in 1..Len(requires.items) : requires.items[i].kind = "other"
         THEN [list |-> <<>>, err |-> "TypeError"]
         ELSE [list |-> [i \in 1..Len(requires.items) |->
                            item_name(requires.items[i], objs)],
               err |-> "none"]
    ELSE [list |-> <<>>, err |-> "TypeError"]

\* job_vars = job_vars or ""; job_vars += 'jobOpts="%s"' % arg_str
dag_job_vars(job_vars, arg_str) ==
    (IF Truthy(job_vars) THEN job_vars ELSE <<>>)
    \o <<"jobOpts=", "\"">> \o arg_str \o <<"\"">>

DAGMan_add_job(j, requires, job_vars, retry) ==
    /\ pc.at = "idle"
    /\ IF j = NotAJob
       THEN /\ last' = Call("DAGMan.add_job", "", j, <<>>, "TypeError")
            /\ UNCHANGED <<dag, jobobjs>>
       ELSE IF name_taken(jobobjs[j].name, dag)
       THEN /\ last' = Call("DAGMan.add_job", "", j, jobobjs[j].name, "KeyError")
            /\ UNCHANGED <<dag, jobobjs>>
       ELSE IF jobobjs[j].manager = NoSet
       THEN /\ last' = Call("DAGMan.add_job", "", j, jobobjs[j].name, "AttributeError")
            /\ UNCHANGED <<dag, jobobjs>>
       ELSE LET job == jobobjs[j]
                m == jobsets[job.manager]
                h == hierarchy_list(requires, jobobjs)
            IN  /\ jobobjs' = [jobobjs EXCEPT ![j].args =
                                  args_after_render(job.args, final_new_args(job, m))]
                /\ dag' = Append(dag,
                             [name |-> job.name, job |-> j,
                              job_vars |-> dag_job_vars(job_vars,
                                               generate_job_arg_str(job, m)),
                              retry |-> retry,
                              requires |-> IF h.err = "none" THEN h.list
                                           ELSE NoneList])
                /\ last' = Call("DAGMan.add_job", "", j, job.name, h.err)
    /\ UNCHANGED <<jobsets, fs, pc>>

\* The orders in which the elements of a set may come out of it.
Orders(S) == {p \in [1..Cardinality(S) -> S] : Range(p) = S}

\* check_job_requirements: the error raised, if any.
check_job_requirements_err(d, job_name) ==
    IF job_name \notin Keys(d) THEN "KeyError"              \* self.jobs[job_name]
    ELSE IF Lookup(d, job_name).requires = NoneList THEN "TypeError"  \* set(None)
    ELSE IF ~(Range(Lookup(d, job_name).requires) \subseteq Keys(d)) THEN "KeyError"
    ELSE "none"

\* (mutant) req_jobs instead of req_jobs - all_jobs
all_requirements(d, job_name) ==
    IF job_name \in Keys(d) /\ Lookup(d, job_name).requires # NoneList
       /\ ~(Range(Lookup(d, job_name).requires) \subseteq Keys(d))
    THEN Range(Lookup(d, job_name).requires)
    ELSE {}

\* req_jobs - all_jobs
missing_requirements(d, job_name) ==
    IF job_name \in Keys(d) /\ Lookup(d, job_name).requires # NoneList
    THEN Range(Lookup(d, job_name).requires) \ Keys(d)
    ELSE {}

DAGMan_check_job_requirements(job_name) ==
    /\ pc.at = "idle"
    /\ \E order \in Orders(missing_requirements(dag, job_name)) :
          last' = [Call("DAGMan.check_job_requirements", "", "", job_name,
                        check_job_requirements_err(dag, job_name))
                   EXCEPT !.names = order]
    /\ UNCHANGED <<jobsets, jobobjs, dag, fs, pc>>

-----------------------------------------------------------------------------
(* DAGMan.check_job_acyclic: the while loop, one iteration per step *)

\* The longest list of parents the model follows the loop to.
MaxParents == 6

requires_of(d, name) == Lookup(d, name).requires

\* One pass of `for p in parents`: the first parent at which the body raises,
\* 0 when none does.
loop_raises_at(d, job_name, parents) ==
    LET bad == {i \in 1..Len(parents) :
                   \/ parents[i] \notin Keys(d)
                   \/ job_name \in Range(requires_of(d, parents[i]))
                   \/ requires_of(d, parents[i]) = NoneList}
    IN  IF bad = {} THEN 0 ELSE CHOOSE i \in bad : \A k \in bad : i <= k

loop_error(d, job_name, p) ==
    IF p \notin Keys(d) THEN "KeyError"                \* self.jobs[p]
    ELSE IF requires_of(d, p) = NoneList THEN "TypeError"   \* job_name in None
    ELSE "RuntimeError"

\* (mutant) the grandparents are tested but never followed
no_new_parents(d, parents) == <<>>

\* new_parents once the for loop has run through parents
RECURSIVE new_parents(_, _)
new_parents(d, parents) ==
    IF parents = <<>> THEN <<>>
    ELSE requires_of(d, Head(parents)) \o new_parents(d, Tail(parents))

\* (mutant) the loop is never entered
loop_never_entered(parents) == FALSE

\* `while parents:` is entered
loop_entered(parents) == parents # <<>> /\ parents # NoneList

InLoop(job_name, parents, caller, idx) ==
    [at |-> "check_job_acyclic", job_name |-> job_name, parents |-> parents,
     caller |-> caller, idx |-> idx, entry |-> pc.entry]

AtNode(idx) ==
    [at |-> "generate_dag_contents", job_name |-> <<>>, parents |-> <<>>,
     caller |-> "", idx |-> idx, entry |-> pc.entry]

\* check_job_acyclic(job_name), called directly: up to the first test of
\* `while parents`.
DAGMan_check_job_acyclic(job_name) ==
    /\ pc.at = "idle"
    /\ IF job_name \notin Keys(dag)
       THEN /\ last' = Call("DAGMan.check_job_acyclic", "", "", job_name, "KeyError")
            /\ pc' = pc
       ELSE IF loop_entered(requires_of(dag, job_name))
       THEN /\ pc' = InLoop(job_name, requires_of(dag, job_name), "", 0)
            /\ last' = Call("DAGMan.check_job_acyclic", "", "", job_name, "running")
       ELSE /\ last' = [Call("DAGMan.check_job_acyclic", "", "", job_name, "none")
                        EXCEPT !.out = <<"True">>]
            /\ pc' = pc
    /\ UNCHANGED <<jobsets, jobobjs, dag, fs>>

-----------------------------------------------------------------------------
(* DAGMan.generate_dag_contents *)

\* date_time_now(), of htcondenser.core.common
date_time_now == <<"<now>">>

generate_job_str(d, objs, sets, job_name) ==
    LET node == Lookup(d, job_name)
    IN  <<"JOB", SP>> \o job_name \o <<SP>> \o sets[objs[node.job].manager].filename
        \o (IF Truthy(node.job_vars)
            THEN <<NL, "VARS", SP>> \o job_name \o <<SP>> \o node.job_vars ELSE <<>>)
        \o (IF Truthy(node.retry)
            THEN <<NL, "RETRY", SP>> \o job_name \o <<SP>> \o node.retry ELSE <<>>)

\* What generate_job_requirements_str returns once both checks have passed.
job_requirements_str(d, job_name) ==
    IF requires_of(d, job_name) # <<>>
    THEN <<"PARENT", SP>> \o str_join(<<SP>>, requires_of(d, job_name))
         \o <<SP, "CHILD", SP>> \o job_name
    ELSE <<>>

\* The DAG file of a DAG every node of which has passed its checks.
dag_contents(d, objs, sets) ==
    LET reqs == SelectSeq([i \in 1..Len(d) |-> job_requirements_str(d, d[i].name)],
                          LAMBDA s : s # <<>>)
    IN  str_join(<<NL>>,
            <<<<"# DAG created at ">> \o date_time_now, <<>>>>
            \o [i \in 1..Len(d) |-> generate_job_str(d, objs, sets, d[i].name)]
            \o reqs
            \o <<<<>>, <<"NODE_STATUS_FILE", SP>> \o DAG_status_file \o <<SP>>
                         \o DAG_status_update_period>>
            \o <<<<>>>>)

\* DAGMan.write has the contents and is about to open the DAG file.
AtWrite(entry) ==
    [at |-> "DAGMan.write", job_name |-> <<>>, parents |-> <<>>,
     caller |-> "", idx |-> 0, entry |-> entry]

\* generate_dag_contents returns: to its caller, or into DAGMan.write
ReturnContents ==
    IF pc.entry = ""
    THEN /\ pc' = Idle
         /\ last' = [Call("DAGMan.generate_dag_contents", "", "", <<>>, "none")
                     EXCEPT !.out = dag_contents(dag, jobobjs, jobsets)]
    ELSE /\ pc' = AtWrite(pc.entry)
         /\ last' = [last EXCEPT !.out = dag_contents(dag, jobobjs, jobsets)]

\* The second loop of generate_dag_contents has finished node idx.
NodeDone(idx) ==
    IF idx < Len(dag) THEN pc' = AtNode(idx + 1) /\ last' = last
    ELSE ReturnContents

\* generate_dag_contents up to the second loop: the first loop renders
\* every job and raises nothing.
DAGMan_generate_dag_contents ==
    /\ pc.at = "idle"
    /\ IF dag = <<>> THEN ReturnContents
       ELSE /\ pc' = AtNode(1)
            /\ last' = Call("DAGMan.generate_dag_contents", "", "", <<>>, "running")
    /\ UNCHANGED <<jobsets, jobobjs, dag, fs>>

\* generate_job_requirements_str(name) for the node the second loop is at: the
\* requirement check, then the acyclic check up to the first test of `while
\* parents`.
generate_job_requirements_str ==
    /\ pc.at = "generate_dag_contents"
    /\ LET job_name == dag[pc.idx].name
           err == check_job_requirements_err(dag, job_name)
       IN  IF err # "none"
           THEN /\ pc' = Idle
                /\ \E order \in Orders(missing_requirements(dag, job_name)) :
                      last' = [Call(IF pc.entry = "" THEN "DAGMan.generate_dag_contents"
                                    ELSE pc.entry, "", "", job_name, err)
                               EXCEPT !.names = order, !.template = last.template]
           ELSE IF loop_entered(requires_of(dag, job_name))
           THEN /\ pc' = InLoop(job_name, requires_of(dag, job_name),
                                "generate_dag_contents", pc.idx)
                /\ last' = last
           ELSE NodeDone(pc.idx)
    /\ UNCHANGED <<jobsets, jobobjs, dag, fs>>

\* One iteration of `while parents:` of check_job_acyclic.
check_job_acyclic_loop ==
    /\ pc.at = "check_job_acyclic"
    /\ LET at == loop_raises_at(dag, pc.job_name, pc.parents)
           op == IF pc.entry # "" THEN pc.entry
                 ELSE IF pc.caller = "" THEN "DAGMan.check_job_acyclic" ELSE pc.caller
       IN  IF at # 0
           THEN /\ pc' = Idle
                /\ last' = [Call(op, "", "", pc.job_name,
                                 loop_error(dag, pc.job_name, pc.parents[at]))
                            EXCEPT !.names = <<pc.parents[at]>>]
           ELSE LET next == new_parents(dag, pc.parents)
                IN  /\ Len(next) <= MaxParents
                    /\ IF next # <<>>
                       THEN pc' = [pc EXCEPT !.parents = next] /\ last' = last
                       ELSE IF pc.caller = ""
                       THEN /\ pc' = Idle
                            /\ last' = [Call(op, "", "", pc.job_name, "none")
                                        EXCEPT !.out = <<"True">>]
                       ELSE NodeDone(pc.idx)
    /\ UNCHANGED <<jobsets, jobobjs, dag, fs>>

-----------------------------------------------------------------------------
(* JobSet.write, JobSet.transfer_to_hdfs, JobSet.submit *)

\* open(filename, 'w') followed by write(contents), and check_call([cmd, file])
write_file(filename, contents) == [fn |-> "write", a |-> filename, b |-> contents]
check_call(cmd, filename) == [fn |-> "check_call", a |-> cmd, b |-> filename]

\* What a failed copy does.  htcondenser.core.common, where cp_hdfs is defined,
\* is not among the sources: a copy command is invoked synchronously and a
\* non-zero exit is fatal.
cp_hdfs_raises == "ExternalCommandError"

\* The file a copy that succeeds makes: in the directory, under the name of
\* the source, when the destination is a directory.  (cp_hdfs is not among the
\* sources.)
cp_hdfs_dest(call, dirs) ==
    IF call.b \in dirs THEN path_join(call.b, basename(call.a)) ELSE call.b

\* The exception a failed external call raises.
call_error(call) ==
    IF call.fn = "write" THEN "IOError"
    ELSE IF call.fn = "os.makedirs" THEN "OSError"
    ELSE IF call.fn = "check_call" THEN "CalledProcessError"
    ELSE cp_hdfs_raises

\* JobSet.write(dag_mode) of a JobSet that has jobs: the file it writes
JobSet_write_calls(m, objs, sets, template, dag_mode) ==
    <<write_file(m.filename, generate_file_contents(m, objs, sets, template, dag_mode))>>

\* The copies JobSet.transfer_to_hdfs makes itself
shared_transfer_calls(m) ==
    IF m.share_exe_setup
    THEN (IF m.copy_exe THEN <<cp_hdfs(m.exe, m.hdfs_store)>> ELSE <<>>)
         \o (IF Truthy(m.setup_script)
             THEN <<cp_hdfs(m.setup_script, m.hdfs_store)>> ELSE <<>>)
    ELSE <<>>

\* for job in self.jobs.itervalues(): job.transfer_to_hdfs()
RECURSIVE jobs_transfer_calls(_, _, _, _)
jobs_transfer_calls(jobs, objs, sets, dirs) ==
    IF jobs = <<>> THEN <<>>
    ELSE LET job == objs[Head(jobs).job]
             calls == job_transfer_calls(job, sets[job.manager], dirs)
         IN  calls \o jobs_transfer_calls(Tail(jobs), objs, sets,
                          fs_after([dirs |-> dirs, files |-> {}], calls).dirs)

\* The calls of one complete JobSet.transfer_to_hdfs
JobSet_transfer_calls(m, objs, sets, dirs) ==
    shared_transfer_calls(m) \o jobs_transfer_calls(m.jobs, objs, sets, dirs)

\* Any external call may fail, and the method stops at the call that does.
\* What a sequence of calls comes to when its first n calls succeed and the
\* next one, if there is one, fails: the calls issued, the error raised, and
\* the world afterwards.
run_calls(f, calls, n) ==
    LET failed == n < Len(calls)
    IN  [calls |-> SubSeq(calls, 1, IF failed THEN n + 1 ELSE Len(calls)),
         err |-> IF failed THEN call_error(calls[n + 1]) ELSE "none",
         fs |-> fs_after(f, SubSeq(calls, 1, IF failed THEN n ELSE Len(calls)))]

JobSet_transfer_to_hdfs(s) ==
    /\ pc.at = "idle"
    /\ \E calls \in {JobSet_transfer_calls(jobsets[s], jobobjs, jobsets, fs.dirs)} :
          \E n \in 0..Len(calls) :
             \E r \in {run_calls(fs, calls, n)} :
                /\ fs' = r.fs
                /\ last' = [Call("JobSet.transfer_to_hdfs", s, "", <<>>, r.err)
                            EXCEPT !.calls = r.calls]
    /\ UNCHANGED <<jobsets, jobobjs, dag, pc>>

\* The loop that reports the directories unpacks each key of a dict into two
\* names, which raises unless the three directories are one.
submit_report_err(m) ==
    IF m.log_dir = m.out_dir /\ m.out_dir = m.err_dir THEN "none" ELSE "ValueError"

\* The calls of a JobSet.submit on a JobSet that has jobs
JobSet_submit_calls(m, objs, sets, template, dirs) ==
    LET after == objs_after_renders(objs, sets, m.jobs)
    IN  JobSet_write_calls(m, objs, sets, template, FALSE)
        \o JobSet_transfer_calls(m, after, sets, dirs)
        \o <<check_call(<<"condor_submit">>, m.filename)>>

JobSet_submit(s, template) ==
    /\ pc.at = "idle"
    /\ LET m == jobsets[s]
           call == [Call("JobSet.submit", s, "", <<>>, "none")
                    EXCEPT !.template = template]
       IN  IF Len(m.jobs) = 0
           THEN /\ last' = [call EXCEPT !.err = "IndexError"]
                /\ UNCHANGED <<jobobjs, fs>>
           ELSE /\ jobobjs' = objs_after_renders(jobobjs, jobsets, m.jobs)
                /\ \E calls \in {JobSet_submit_calls(m, jobobjs, jobsets, template,
                                                     fs.dirs)} :
                      \E n \in 0..Len(calls) :
                         \E r \in {run_calls(fs, calls, n)} :
                            /\ fs' = r.fs
                            /\ last' = [call EXCEPT !.calls = r.calls,
                                            !.err = IF r.err # "none" THEN r.err
                                                    ELSE submit_report_err(m)]
    /\ UNCHANGED <<jobsets, dag, pc>>

-----------------------------------------------------------------------------
(* DAGMan.get_managers, DAGMan.write, DAGMan.submit *)

\* The set get_managers makes a list of
get_managers(d, objs) == {objs[d[i].job].manager : i \in 1..Len(d)}

\* for manager in self.get_managers(): manager.write(dag_mode=True).  A JobSet
\* without jobs raises in generate_file_contents before it opens its file.
RECURSIVE managers_write_calls(_, _, _, _)
managers_write_calls(managers, objs, sets, template) ==
    IF managers = <<>> \/ Len(sets[Head(managers)].jobs) = 0 THEN <<>>
    ELSE JobSet_write_calls(sets[Head(managers)], objs, sets, template, TRUE)
         \o managers_write_calls(Tail(managers), objs, sets, template)

managers_write_err(managers, sets) ==
    IF \E i \in 1..Len(managers) : Len(sets[managers[i]].jobs) = 0
    THEN "IndexError" ELSE "none"

\* for manager in self.get_managers(): manager.transfer_to_hdfs()
RECURSIVE managers_transfer_calls(_, _, _, _)
managers_transfer_calls(managers, objs, sets, dirs) ==
    IF managers = <<>> THEN <<>>
    ELSE LET calls == JobSet_transfer_calls(sets[Head(managers)], objs, sets, dirs)
         IN  calls \o managers_transfer_calls(Tail(managers), objs, sets,
                          fs_after([dirs |-> dirs, files |-> {}], calls).dirs)

\* The calls of DAGMan.write once generate_dag_contents has returned contents
DAGMan_write_calls(contents, managers, objs, sets, template) ==
    <<write_file(DAG_filename, contents)>>
    \o managers_write_calls(managers, objs, sets, template)

\* (mutant) the DAG submitted before the transfers of the managers
DAGMan_submit_before_transfers(contents, managers, objs, sets, template, dirs) ==
    DAGMan_write_calls(contents, managers, objs, sets, template)
    \o <<check_call(<<"condor_submit_dag">>, DAG_filename)>>
    \o managers_transfer_calls(managers, objs, sets, dirs)

\* The calls of DAGMan.submit once generate_dag_contents has returned contents
DAGMan_submit_calls(contents, managers, objs, sets, template, dirs) ==
    DAGMan_write_calls(contents, managers, objs, sets, template)
    \o managers_transfer_calls(managers, objs, sets, dirs)
    \o <<check_call(<<"condor_submit_dag">>, DAG_filename)>>

\* (mutant) the DAG file written without the second loop of
\* generate_dag_contents, which makes the checks
DAGMan_enter_unchecked(entry, template) ==
    /\ pc.at = "idle"
    /\ pc' = AtWrite(entry)
    /\ last' = [Call(entry, "", "", <<>>, "running")
                EXCEPT !.template = template,
                       !.out = dag_contents(dag, jobobjs, jobsets)]
    /\ UNCHANGED <<jobsets, jobobjs, dag, fs>>

\* DAGMan.write() and DAGMan.submit() up to the second loop of
\* generate_dag_contents.
DAGMan_enter(entry, template) ==
    /\ pc.at = "idle"
    /\ pc' = IF dag = <<>> THEN AtWrite(entry) ELSE [AtNode(1) EXCEPT !.entry = entry]
    /\ last' = [Call(entry, "", "", <<>>, "running")
                EXCEPT !.template = template,
                       !.out = IF dag = <<>> THEN dag_contents(dag, jobobjs, jobsets)
                               ELSE <<>>]
    /\ UNCHANGED <<jobsets, jobobjs, dag, fs>>

DAGMan_write(template) == DAGMan_enter("DAGMan.write", template)

DAGMan_submit(template) == DAGMan_enter("DAGMan.submit", template)

\* The rest of DAGMan.write or DAGMan.submit, from the opening of the DAG file.
DAGMan_write_files ==
    /\ pc.at = "DAGMan.write"
    /\ \E managers \in Orders(get_managers(dag, jobobjs)) :
          LET werr == managers_write_err(managers, jobsets)
          IN  \E calls \in {IF pc.entry = "DAGMan.write" \/ werr # "none"
                             THEN DAGMan_write_calls(last.out, managers, jobobjs,
                                                     jobsets, last.template)
                             ELSE DAGMan_submit_calls(last.out, managers, jobobjs,
                                                      jobsets, last.template,
                                                      fs.dirs)} :
                 \E n \in 0..Len(calls) :
                    \E r \in {run_calls(fs, calls, n)} :
                       /\ fs' = r.fs
                       /\ last' = [last EXCEPT !.calls = r.calls,
                                       !.err = IF r.err # "none" THEN r.err
                                               ELSE werr]
    /\ pc' = Idle
    /\ UNCHANGED <<jobsets, jobobjs, dag>>

-----------------------------------------------------------------------------
(* Inputs and initial states *)

\* Longest list passed as `requires`, and most prerequisites stored in a DAG.
MaxReqLen == 2
MaxEdges == 3

A == <<"a">>
B == <<"b">>
C == <<"c">>
Names == {A, B, C}

SeqsUpTo(S, n) == UNION {[1..k -> S] : k \in 0..n}

\* Paths: on HDFS, on HDFS by the literal prefix only, and elsewhere.
EXE == <<".", "/", "e">>
SETUP == <<"/", "u", "/", "s">>
STORE == <<"/", "h", "d", "f", "s", "/", "t">>
ON_HDFS == <<"/", "h", "d", "f", "s", "/", "d">>
HDFS_LIKE == <<"/", "h", "d", "f", "s", "x">>
USER_FILE == <<"/", "u", "/", "d">>
RESULT == <<"r">>

\* The directories made by the constructors of the JobSets of a state.
DirsOf(sets) ==
    UNION {{d \in {sets[s].out_dir, sets[s].err_dir, sets[s].log_dir,
                   sets[s].hdfs_store} : Truthy(d)} : s \in DOMAIN sets}

NoFiles == [dirs |-> {}, files |-> {}]

\* The number of prerequisites stored in the DAG.
RECURSIVE Edges(_)
Edges(d) ==
    IF d = <<>> THEN 0
    ELSE (IF Head(d).requires = NoneList THEN 0 ELSE Len(Head(d).requires))
         + Edges(Tail(d))

-----------------------------------------------------------------------------
(* SpecAdd: sequences of JobSet.add_job and DAGMan.add_job *)

\* Two JobSets that differ in every flag; Jobs j1 and j3 share the name a.
AddSets ==
    [s \in SetIds |->
        IF s = "s1"
        THEN JobSet_init([JobSetDefaults EXCEPT !.hdfs_store = STORE])
        ELSE JobSet_init([JobSetDefaults EXCEPT
                            !.hdfs_store = STORE, !.copy_exe = FALSE,
                            !.setup_script = SETUP, !.share_exe_setup = TRUE,
                            !.filename = <<"k", ".", "c">>])]

AddJobs ==
    [j \in {"j1", "j2", "j3"} |->
        CASE j = "j1" -> Job_init(A, ArgsList(<<USER_FILE>>), <<USER_FILE>>, <<RESULT>>, 1, None)
          [] j = "j2" -> Job_init(B, ArgsNone, NoneList, NoneList, 1, None)
          [] j = "j3" -> Job_init(A, ArgsStr(<<"x", " ", "y">>), <<ON_HDFS>>, NoneList, 2, None)]

AddRequires == {ReqNone, ReqJob("j2")}

InitAdd ==
    /\ jobsets = AddSets
    /\ jobobjs = AddJobs
    /\ dag = <<>>
    /\ fs = [NoFiles EXCEPT !.dirs = DirsOf(AddSets)]
    /\ pc = Idle
    /\ last = NoCall

NextAdd ==
    \/ \E s \in SetIds, j \in DOMAIN jobobjs \cup {NotAJob} : JobSet_add_job(s, j)
    \/ \E j \in DOMAIN jobobjs \cup {NotAJob}, requires \in AddRequires :
          DAGMan_add_job(j, requires, None, None)

SpecAdd == InitAdd /\ [][NextAdd]_vars

-----------------------------------------------------------------------------
(* SpecDag: DAGMan.add_job with every kind of `requires`, and the checks *)

DagSets == [s \in {"s1"} |-> JobSet_init([JobSetDefaults EXCEPT !.hdfs_store = STORE])]

DagJobs ==
    [j \in {"j1", "j2", "j3"} |->
        Job_init(CASE j = "j1" -> A [] j = "j2" -> B [] j = "j3" -> C,
                 ArgsNone, NoneList, NoneList, 1, None)]

\* The state after s1.add_job(j1), s1.add_job(j2), s1.add_job(j3)
DagAttached ==
    LET r1 == add_job_result(DagSets, DagJobs, "s1", "j1")
        r2 == add_job_result(r1.sets, r1.objs, "s1", "j2")
    IN  add_job_result(r2.sets, r2.objs, "s1", "j3")

DagItems == {ItemStr(n) : n \in Names}

DagRequires ==
    {ReqNone, ReqOther, ReqSet(<<ItemStr(A)>>), ReqList(<<ItemStr(A), ItemOther>>)}
    \cup {ReqStr(n) : n \in Names}
    \cup {ReqJob("j2"), ReqList(<<ItemJob("j1"), ItemStr(C)>>)}
    \cup {ReqList(l) : l \in SeqsUpTo(DagItems, MaxReqLen)}

InitDag ==
    /\ jobsets = DagAttached.sets
    /\ jobobjs = DagAttached.objs
    /\ dag = <<>>
    /\ fs = [NoFiles EXCEPT !.dirs = DirsOf(DagSets)]
    /\ pc = Idle
    /\ last = NoCall

\* A call that is rejected before `requires` is read is made with one value
\* of it.
DagAdd ==
    \E j \in DOMAIN jobobjs :
       IF jobobjs[j].name \in Keys(dag)
       THEN DAGMan_add_job(j, ReqNone, None, None)
       ELSE \E requires \in DagRequires :
               /\ Edges(dag) + Len(requires.items) <= MaxEdges
               /\ DAGMan_add_job(j, requires, None, None)

NextDag ==
    \/ DagAdd
    \/ \E n \in Names : DAGMan_check_job_acyclic(n)
    \/ check_job_acyclic_loop
    \/ DAGMan_generate_dag_contents
    \/ generate_job_requirements_str

NextReq ==
    \/ DagAdd
    \/ \E n \in Names : DAGMan_check_job_requirements(n)

SpecReq == InitDag /\ [][NextReq]_vars

SpecDag == InitDag /\ [][NextDag]_vars

-----------------------------------------------------------------------------
(* SpecMirror: attachment of one Job and its transfers, over the flags of
   the JobSet and the places its files are in *)

\* Most files (inputs and outputs together) a Job of SpecMirror is made with.
MaxFiles == 2

HDFS_EXE == <<"/", "h", "d", "f", "s", "/", "e">>
OVERRIDE == <<"/", "h", "d", "f", "s", "/", "o">>

MirrorSetArgs ==
    {[JobSetDefaults EXCEPT !.exe = e, !.copy_exe = c, !.setup_script = su,
                            !.share_exe_setup = sh, !.hdfs_store = STORE] :
        e \in {EXE, HDFS_EXE}, c \in BOOLEAN, su \in {None, SETUP, HDFS_LIKE},
        sh \in BOOLEAN}

\* The Jobs with MaxFiles input and output files or fewer
MirrorJobs ==
    UNION {{Job_init(A, ArgsNone, ins, outs, 1, dir) :
                outs \in SeqsUpTo({ON_HDFS, RESULT}, MaxFiles - Len(ins)),
                dir \in {None, OVERRIDE}} :
           ins \in SeqsUpTo({ON_HDFS, USER_FILE, HDFS_LIKE}, MaxFiles)}

InitMirror ==
    \E a \in MirrorSetArgs, job \in MirrorJobs :
       /\ jobsets = [s \in {"s1"} |-> JobSet_init(a)]
       /\ jobobjs = [j \in {"j1"} |-> job]
       /\ dag = <<>>
       /\ fs = [NoFiles EXCEPT !.dirs = JobSet_init_dirs(a)]
       /\ pc = Idle
       /\ last = NoCall

\* More calls than a transfer makes stand for no failure.
NextMirror ==
    \/ JobSet_add_job("s1", "j1")
    \/ \E n \in 0..(MaxFiles + 3) : Job_transfer_to_hdfs("j1", n)

SpecMirror == InitMirror /\ [][NextMirror]_vars

-----------------------------------------------------------------------------
(* SpecArgs: one Job, attached and rendered, over the flags of its JobSet
   and over argument lists that name its files *)

\* Most arguments, input files and output files together a Job of SpecArgs
\* is made with.
MaxItems == 3

\* The HDFS mirror of USER_FILE as an output of Job a under STORE
OUT_MIRROR == path_join(path_join(STORE, A), basename(USER_FILE))

VARS_TEXT == <<"v", "=", "1", " ">>

ArgsSetArgs ==
    {[JobSetDefaults EXCEPT !.exe = EXE, !.copy_exe = c, !.setup_script = su,
                            !.share_exe_setup = sh, !.transfer_hdfs_input = t,
                            !.hdfs_store = STORE] :
        c \in BOOLEAN, su \in {None, SETUP}, sh \in BOOLEAN, t \in BOOLEAN}

\* The Jobs with the arguments args: MaxItems arguments and files or fewer
ArgsJobsWith(args) ==
    UNION {{Job_init(A, ArgsList(args), ins, outs, 1, None) :
                outs \in SeqsUpTo({USER_FILE, EXE}, MaxItems - Len(args) - Len(ins))} :
           ins \in SeqsUpTo({USER_FILE, ON_HDFS, OUT_MIRROR}, MaxItems - Len(args))}

ArgsJobs ==
    UNION {ArgsJobsWith(args) : args \in SeqsUpTo({USER_FILE, EXE, OUT_MIRROR}, MaxItems)}

\* The example of the specification: job `sum` under the root /store/alice,
\* transfer-before-run enabled.
ALICE == <<"/", "s", "t", "o", "r", "e", "/", "a", "l", "i", "c", "e">>
SUM == <<"s", "u", "m">>
DATA_TXT == <<"/", "s", "t", "o", "r", "e", "/", "d", "a", "t", "a", ".", "t", "x", "t">>
RESULT_TXT == <<"r", "e", "s", "u", "l", "t", ".", "t", "x", "t">>
OPT_IN == <<"-", "-", "i", "n">>
OPT_OUT == <<"-", "-", "o", "u", "t">>

ExampleSetArgs ==
    {[a EXCEPT !.hdfs_store = ALICE] : a \in {b \in ArgsSetArgs : b.transfer_hdfs_input}}

ExampleJob ==
    Job_init(SUM, ArgsList(<<OPT_IN, DATA_TXT, OPT_OUT, RESULT_TXT>>),
             <<DATA_TXT>>, <<RESULT_TXT>>, 1, None)

InitArgs ==
    \E a \in ArgsSetArgs \cup ExampleSetArgs, job \in ArgsJobs \cup {ExampleJob} :
       /\ (job = ExampleJob) <=> (a \in ExampleSetArgs)
       /\ jobsets = [s \in {"s1"} |-> JobSet_init(a)]
       /\ jobobjs = [j \in {"j1"} |-> job]
       /\ dag = <<>>
       /\ fs = [NoFiles EXCEPT !.dirs = JobSet_init_dirs(a)]
       /\ pc = Idle
       /\ last = NoCall

NextArgs ==
    \/ JobSet_add_job("s1", "j1")
    \/ Job_generate_job_arg_str("j1")
    \/ \E job_vars \in {None, VARS_TEXT} : DAGMan_add_job("j1", ReqNone, job_vars, None)

SpecArgs == InitArgs /\ [][NextArgs]_vars

-----------------------------------------------------------------------------
(* SpecFile: the submit file of a JobSet, in both modes, as Jobs are added *)

\* A template that names placeholders of the dict and one that is not of it
TEMPLATE_FULL ==
    <<"w", "=", "{", "E", "X", "E", "_", "W", "R", "A", "P", "P", "E", "R", "}", NL,
      "o", "=", "{", "S", "T", "D", "O", "U", "T", "}", NL, "c", "=", "{", "C", "P",
      "U", "S", "}", NL, "m", "=", "{", "M", "E", "M", "O", "R", "Y", "}", NL, "i",
      "=", "{", "T", "R", "A", "N", "S", "F", "E", "R", "_", "I", "N", "P", "U", "T",
      "_", "F", "I", "L", "E", "S", "}", NL, "t", "=", "{", "T", "R", "A", "N", "S",
      "F", "E", "R", "_", "O", "U", "T", "P", "U", "T", "_", "F", "I", "L", "E", "S",
      "}", NL, "{", "O", "T", "H", "E", "R", "_", "A", "R", "G", "S", "}", NL, "{",
      "x", "}", NL>>

\* A template with a queue line of its own, which ends inside a placeholder
TEMPLATE_OPEN == <<"q", "u", "e", "u", "e", NL, "{">>

Templates == {<<>>, TEMPLATE_FULL, TEMPLATE_OPEN}

BRACED == <<"{", "x", "}">>
BRACED_NAME == <<"c", "{", "y", "}">>
LIST_IN == <<"/", "u", "/", "i">>
LIST_OUT == <<"/", "u", "/", "o">>

FileSetArgs ==
    {[JobSetDefaults EXCEPT !.exe = EXE, !.hdfs_store = STORE,
                            !.transfer_input_files = tif,
                            !.transfer_output_files = tof,
                            !.other_args = other] :
        tif \in {NoneList, <<LIST_IN, USER_FILE>>},
        tof \in {NoneList, <<LIST_OUT>>},
        other \in {OtherArgsNone, OtherArgs(<<<<<<"k">>, BRACED>>>>)}}

FileSecondSet ==
    [JobSetDefaults EXCEPT !.exe = EXE, !.hdfs_store = STORE, !.setup_script = SETUP,
                           !.transfer_hdfs_input = FALSE, !.cpus = 12]

FileJobs ==
    [j \in {"j1", "j2", "j3"} |->
        CASE j = "j1" -> Job_init(A, ArgsList(<<USER_FILE>>), <<USER_FILE>>, NoneList,
                                  1, None)
          [] j = "j2" -> Job_init(B, ArgsList(<<BRACED>>), NoneList, <<RESULT>>, 2, None)
          [] j = "j3" -> Job_init(BRACED_NAME, ArgsNone, NoneList, NoneList, 12, None)]

InitFile ==
    \E a \in FileSetArgs :
       /\ JobSet_init_err(a) = "none"
       /\ jobsets = [s \in SetIds |-> IF s = "s1" THEN JobSet_init(a)
                                      ELSE JobSet_init(FileSecondSet)]
       /\ jobobjs = FileJobs
       /\ dag = <<>>
       /\ fs = [NoFiles EXCEPT !.dirs = JobSet_init_dirs(a)]
       /\ pc = Idle
       /\ last = NoCall

NextFile ==
    \/ \E s \in SetIds, j \in DOMAIN jobobjs :
          /\ s = "s2" => j = "j1"
          /\ JobSet_add_job(s, j)
    \/ \E s \in SetIds, template \in Templates, dag_mode \in BOOLEAN :
          JobSet_generate_file_contents(s, template, dag_mode)

SpecFile == InitFile /\ [][NextFile]_vars

-----------------------------------------------------------------------------
(* SpecSubmit: JobSet.submit, DAGMan.write and DAGMan.submit on the JobSets
   and graphs add_job builds, every external call of which may fail *)

SUBMIT_TEMPLATE == <<"w", "=", "{", "E", "X", "E", "_", "W", "R", "A", "P", "P", "E", "R", "}", NL>>
SECOND_FILENAME == <<"k", ".", "c">>
ERR_DIR == <<"e">>

SubmitSetArgs ==
    {[JobSetDefaults EXCEPT !.exe = EXE, !.hdfs_store = STORE,
                            !.share_exe_setup = sh] :
        sh \in BOOLEAN}

SubmitSecondSet ==
    [JobSetDefaults EXCEPT !.exe = EXE, !.hdfs_store = STORE, !.copy_exe = FALSE,
                           !.filename = SECOND_FILENAME, !.err_dir = ERR_DIR]

SubmitJobs ==
    [j \in {"j1", "j2"} |->
        CASE j = "j1" -> Job_init(A, ArgsList(<<USER_FILE>>), <<USER_FILE>>, NoneList,
                                  1, None)
          [] j = "j2" -> Job_init(B, ArgsNone, NoneList, NoneList, 1, None)]

\* j1 that requires A is a cycle; j2 that requires A reaches it, and names no
\* node as long as j1 is not in the DAG.
SubmitRequires == {ReqNone, ReqStr(A)}

InitSubmit ==
    \E a \in SubmitSetArgs :
       /\ jobsets = [s \in SetIds |-> IF s = "s1" THEN JobSet_init(a)
                                      ELSE JobSet_init(SubmitSecondSet)]
       /\ jobobjs = SubmitJobs
       /\ dag = <<>>
       /\ fs = [NoFiles EXCEPT !.dirs = JobSet_init_dirs(a)
                                        \cup JobSet_init_dirs(SubmitSecondSet)]
       /\ pc = Idle
       /\ last = NoCall

NextSubmit ==
    \/ \E s \in SetIds, j \in DOMAIN jobobjs :
          /\ s = "s1" <=> j = "j1"
          /\ JobSet_add_job(s, j)
    \/ \E j \in DOMAIN jobobjs, requires \in SubmitRequires :
          DAGMan_add_job(j, requires, None, None)
    \/ \E s \in SetIds : JobSet_submit(s, SUBMIT_TEMPLATE)
    \/ DAGMan_write(SUBMIT_TEMPLATE)
    \/ DAGMan_submit(SUBMIT_TEMPLATE)
    \/ generate_job_requirements_str
    \/ check_job_acyclic_loop
    \/ DAGMan_write_files

SpecSubmit == InitSubmit /\ [][NextSubmit]_vars

-----------------------------------------------------------------------------
(* SpecLoop: the loops of the checks, which run on once they are entered.
   Every Job requires at most one other Job, so that the list of parents the
   loop holds never grows. *)

LoopRequires(j) == {ReqNone} \cup {ReqStr(n) : n \in Names \ {jobobjs[j].name}}

LoopAdd ==
    \E j \in DOMAIN jobobjs :
       \E requires \in LoopRequires(j) : DAGMan_add_job(j, requires, None, None)

NextLoop ==
    \/ LoopAdd
    \/ \E n \in Names : DAGMan_check_job_acyclic(n)
    \/ check_job_acyclic_loop
    \/ DAGMan_generate_dag_contents
    \/ generate_job_requirements_str

\* The program is single-threaded: a call that has been entered takes its
\* next step.  Nothing obliges the caller to make another call.
SpecLoop ==
    /\ InitDag
    /\ [][NextLoop]_vars
    /\ WF_vars(check_job_acyclic_loop)
    /\ WF_vars(generate_job_requirements_str)

-----------------------------------------------------------------------------
(* SpecRetry: add_job calls that raise, and the calls made after them.  s1 is
   a JobSet made without hdfs_store; j3 is j1 corrected: the same name, with a
   mirror directory of its own. *)

RetrySets ==
    [s \in SetIds |->
        IF s = "s1" THEN JobSet_init([JobSetDefaults EXCEPT !.exe = EXE])
        ELSE JobSet_init([JobSetDefaults EXCEPT !.exe = EXE, !.hdfs_store = STORE,
                                                !.filename = SECOND_FILENAME])]

RetryJobs ==
    [j \in {"j1", "j2", "j3"} |->
        CASE j = "j1" -> Job_init(A, ArgsNone, <<USER_FILE>>, <<RESULT>>, 1, None)
          [] j = "j2" -> Job_init(B, ArgsNone, NoneList, NoneList, 1, None)
          [] j = "j3" -> Job_init(A, ArgsNone, <<USER_FILE>>, <<RESULT>>, 1, OVERRIDE)]

RetryRequires == {ReqNone, ReqStr(B), ReqSet(<<ItemStr(B)>>), ReqOther,
                  ReqList(<<ItemStr(B), ItemOther>>)}

InitRetry ==
    /\ jobsets = RetrySets
    /\ jobobjs = RetryJobs
    /\ dag = <<>>
    /\ fs = [NoFiles EXCEPT !.dirs = DirsOf(RetrySets)]
    /\ pc = Idle
    /\ last = NoCall

NextRetry ==
    \/ \E s \in SetIds, j \in DOMAIN jobobjs \cup {NotAJob} : JobSet_add_job(s, j)
    \/ \E j \in DOMAIN jobobjs \cup {NotAJob}, requires \in RetryRequires :
          DAGMan_add_job(j, requires, None, None)
    \/ DAGMan_generate_dag_contents
    \/ generate_job_requirements_str
    \/ check_job_acyclic_loop

SpecRetry == InitRetry /\ [][NextRetry]_vars

-----------------------------------------------------------------------------
(* SpecTransfer: JobSet.transfer_to_hdfs over the flags of the JobSet, for
   Jobs whose input lists name the executable or the setup script *)

TransferSetArgs ==
    {[JobSetDefaults EXCEPT !.exe = EXE, !.copy_exe = c, !.setup_script = su,
                            !.share_exe_setup = sh, !.transfer_hdfs_input = t,
                            !.hdfs_store = STORE] :
        c \in BOOLEAN, su \in {None, SETUP}, sh \in BOOLEAN, t \in BOOLEAN}

TransferInputs == {NoneList, <<USER_FILE>>, <<EXE>>, <<SETUP>>, <<ON_HDFS, USER_FILE>>}

InitTransfer ==
    \E a \in TransferSetArgs, ins \in TransferInputs :
       /\ jobsets = [s \in {"s1"} |-> JobSet_init(a)]
       /\ jobobjs = [j \in {"j1", "j2"} |->
                        IF j = "j1" THEN Job_init(A, ArgsNone, ins, NoneList, 1, None)
                        ELSE Job_init(B, ArgsNone, <<USER_FILE>>, NoneList, 1, None)]
       /\ dag = <<>>
       /\ fs = [NoFiles EXCEPT !.dirs = JobSet_init_dirs(a)]
       /\ pc = Idle
       /\ last = NoCall

NextTransfer ==
    \/ \E j \in DOMAIN jobobjs : JobSet_add_job("s1", j)
    \/ JobSet_transfer_to_hdfs("s1")
    \/ \E j \in DOMAIN jobobjs : Job_generate_job_arg_str(j)

SpecTransfer == InitTransfer /\ [][NextTransfer]_vars

-----------------------------------------------------------------------------
(* Claims *)

\* The step is a call of `op` with a Job whose name is a key of `od` before
\* the call.
DuplicateAdd(op, od) ==
    /\ last'.op = op
    /\ last'.job \in DOMAIN jobobjs
    /\ jobobjs[last'.job].name \in Keys(od)

\* C1: JobSet.add_job and DAGMan.add_job of a Job whose name is already a key
\* of the container's mapping fail with KeyError and leave the container (keys,
\* order, stored job or node) and the rejected Job (owner, mirror lists and
\* every other field) exactly as they were.
C1_DuplicateAddRejected ==
    [][/\ (\E s \in SetIds : last'.on = s /\ DuplicateAdd("JobSet.add_job", jobsets[s].jobs))
            => (last'.err = "KeyError" /\ UNCHANGED <<jobsets, jobobjs, dag>>)
       /\ DuplicateAdd("DAGMan.add_job", dag)
            => (last'.err = "KeyError" /\ UNCHANGED <<jobsets, jobobjs, dag>>)]_vars

\* C1 witness: a Job was rejected by the DAG as a duplicate of a node whose
\* Job has the same name and belongs to another JobSet, after both Jobs were
\* rejected or accepted by their JobSets.
C1_Witness ==
    /\ last.op = "DAGMan.add_job"
    /\ last.err = "KeyError"
    /\ \E i \in 1..Len(dag) :
          /\ dag[i].name = last.name
          /\ dag[i].job # last.job
          /\ jobobjs[last.job].manager # NoSet
          /\ jobobjs[dag[i].job].manager # jobobjs[last.job].manager
    /\ \E s \in SetIds : Len(jobsets[s].jobs) = 2

-----------------------------------------------------------------------------
(* The prerequisite relation of a DAG *)

\* Every node has its list of prerequisites stored.
RequiresStored(d) == \A i \in 1..Len(d) : d[i].requires # NoneList

\* Every prerequisite name stored on a node is the name of a node.
NamesResolve(d) ==
    \A i \in 1..Len(d) :
        d[i].requires # NoneList => \A p \in Range(d[i].requires) : p \in Keys(d)

\* The names stored as prerequisites of the node called n.
Parents(d, n) ==
    UNION {Range(d[i].requires) : i \in {k \in 1..Len(d) :
                                      d[k].name = n /\ d[k].requires # NoneList}}

\* The names reached from the names in S by at most k prerequisite edges.
RECURSIVE Closure(_, _, _)
Closure(d, S, k) ==
    IF k = 0 THEN S
    ELSE Closure(d, S \cup UNION {Parents(d, n) : n \in S}, k - 1)

\* The names reached from n by one or more prerequisite edges.
Ancestors(d, n) == Closure(d, Parents(d, n), Len(d))

OnCycle(d, n) == n \in Ancestors(d, n)

Acyclic(d) == \A n \in Keys(d) : ~OnCycle(d, n)

\* C2: on a DAG whose prerequisite names all resolve, check_job_acyclic(n)
\* ends with the cyclic-dependency error (RuntimeError) exactly when n is
\* reachable from itself by one or more prerequisite edges, ends in no other
\* way than that error or returning True, and while it runs for such an n the
\* parents it holds still lead back to n.
C2_AcyclicCheck ==
    /\ (/\ last.op = "DAGMan.check_job_acyclic"
        /\ last.err # "running"
        /\ last.name \in Keys(dag)
        /\ RequiresStored(dag) /\ NamesResolve(dag))
       => /\ last.err \in {"none", "RuntimeError"}
          /\ last.err = "RuntimeError" <=> OnCycle(dag, last.name)
          /\ last.err = "none" => last.out = <<"True">>
    /\ (/\ pc.at = "check_job_acyclic"
        /\ RequiresStored(dag) /\ NamesResolve(dag)
        /\ OnCycle(dag, pc.job_name))
       => pc.job_name \in Closure(dag, Range(pc.parents), Len(dag))

\* C2 witness: with A requiring C, B requiring A and C requiring B, the check
\* of a node has raised the cyclic-dependency error.
C2_Witness ==
    /\ last.op = "DAGMan.check_job_acyclic"
    /\ last.err = "RuntimeError"
    /\ Len(dag) = 3
    /\ Parents(dag, A) = {C} /\ Parents(dag, B) = {A} /\ Parents(dag, C) = {B}

\* C3: check_job_requirements(n), for a node n with stored prerequisites,
\* raises KeyError exactly when some prerequisite name of n is no key of the
\* DAG, the error then names each missing name once and no other name, the
\* call returns normally otherwise, and it changes nothing.
C3_RequirementsCheck ==
    [][(/\ last'.op = "DAGMan.check_job_requirements"
        /\ last'.name \in Keys(dag)
        /\ Lookup(dag, last'.name).requires # NoneList)
       => LET missing == {p \in Parents(dag, last'.name) : p \notin Keys(dag)}
          IN  /\ last'.err = "KeyError" <=> missing # {}
              /\ last'.err \in {"KeyError", "none"}
              /\ Range(last'.names) = missing
              /\ Len(last'.names) = Cardinality(missing)
              /\ UNCHANGED <<jobsets, jobobjs, dag, fs, pc>>]_vars

\* C3 witness: the check of a node with two missing prerequisites has raised,
\* naming the two.
C3_Witness ==
    /\ last.op = "DAGMan.check_job_requirements"
    /\ last.err = "KeyError"
    /\ last.name \in Keys(dag)
    /\ Len(last.names) = 2

\* C4 as stated: in every state reached by DAGMan.add_job calls every stored
\* prerequisite name resolves and the prerequisite relation is acyclic.
C4_Original == NamesResolve(dag) /\ Acyclic(dag)

\* C4 amended: add_job stores prerequisite names unchecked; whenever
\* generate_dag_contents has returned the DAG file, every node has its
\* prerequisites stored, every stored name resolves and the relation is acyclic.
C4_ValidatedDag ==
    (last.op = "DAGMan.generate_dag_contents" /\ last.err = "none")
    => RequiresStored(dag) /\ NamesResolve(dag) /\ Acyclic(dag)

\* C4 witness: the DAG file was returned for a DAG of three nodes, two of
\* them with prerequisites.
C4_Witness ==
    /\ last.op = "DAGMan.generate_dag_contents"
    /\ last.err = "none"
    /\ Len(dag) = 3
    /\ Cardinality({n \in Keys(dag) : Parents(dag, n) # {}}) = 2

-----------------------------------------------------------------------------
(* C5 *)

OnHdfs(path) == Len(path) >= 5 /\ SubSeq(path, 1, 5) = <<"/", "h", "d", "f", "s">>

\* The mirrors of a list of files: one per file, in order, and a file that is
\* on HDFS already is its own HDFS mirror.
MirrorsOf(mirrors, files) ==
    /\ Len(mirrors) = Len(files)
    /\ \A i \in 1..Len(files) :
          /\ mirrors[i].original = files[i]
          /\ OnHdfs(files[i]) => mirrors[i].hdfs = files[i]

\* C5: every input or output file of an attached Job whose path begins with
\* /hdfs (the executable and the setup script among them) has a mirror whose
\* HDFS path is the original path, whatever the flags of the JobSet and the
\* mirror directory of the Job; and Job.transfer_to_hdfs issues no copy of
\* such a file.
C5_HdfsFilesMirrorThemselves ==
    \A j \in DOMAIN jobobjs :
        jobobjs[j].manager # NoSet =>
            /\ MirrorsOf(jobobjs[j].input_file_mirrors, jobobjs[j].input_files)
            /\ MirrorsOf(jobobjs[j].output_file_mirrors, jobobjs[j].output_files)
            /\ (last.op = "Job.transfer_to_hdfs" /\ last.job = j) =>
                  \A k \in 1..Len(last.calls) :
                      last.calls[k].fn = "cp_hdfs" => ~OnHdfs(last.calls[k].a)

\* A Job with its own mirror directory, of a JobSet that shares an executable
\* that is on HDFS, with an output on HDFS and an input that is not: a complete
\* transfer, which copied that input.
C5_Witness ==
    /\ last.op = "Job.transfer_to_hdfs"
    /\ last.err = "none"
    /\ \E k \in 1..Len(last.calls) : last.calls[k].fn = "cp_hdfs"
    /\ LET job == jobobjs[last.job]
       IN  /\ job.manager # NoSet
           /\ job.hdfs_mirror_dir = OVERRIDE
           /\ jobsets[job.manager].share_exe_setup
           /\ HDFS_EXE \in Range(job.input_files)
           /\ USER_FILE \in Range(job.input_files)
           /\ ON_HDFS \in Range(job.output_files)

-----------------------------------------------------------------------------
(* C6 to C9: the string of generate_job_arg_str *)

RenderDone == last.op = "Job.generate_job_arg_str" /\ last.err = "none"

\* The words of the string returned, the Job rendered and its JobSet
Rendered == str_split(last.out)
RenderedJob == jobobjs[last.job]
RenderedSet == jobsets[RenderedJob.manager]

\* seq restricted to the indexes in K, in order
Sub(seq, K) ==
    LET F[i \in 0..Len(seq)] ==
            IF i = 0 THEN <<>>
            ELSE IF i \in K THEN Append(F[i - 1], seq[i]) ELSE F[i - 1]
    IN  F[Len(seq)]

RECURSIVE Concat(_)
Concat(seqs) == IF seqs = <<>> THEN <<>> ELSE Head(seqs) \o Concat(Tail(seqs))

StageIn(mirrors) ==
    Concat([i \in 1..Len(mirrors) |->
                <<<<"--copyToLocal">>, mirrors[i].hdfs, mirrors[i].worker>>])

StageOut(mirrors) ==
    Concat([i \in 1..Len(mirrors) |->
                <<<<"--copyFromLocal">>, mirrors[i].worker, mirrors[i].hdfs>>])

\* What the string holds before the arguments when it stages in the input
\* mirrors with the indexes K, the --args marker included.
Options(job, m, K) ==
    (IF m.setup_script # None THEN <<<<"--setup">>, basename(m.setup_script)>>
     ELSE <<>>)
    \o StageIn(Sub(job.input_file_mirrors, K))
    \o StageOut(job.output_file_mirrors)
    \o <<<<"--exe">>, basename(m.exe), <<"--args">>>>

\* What an argument may be rewritten to
Rewrites(job, arg) ==
    {arg} \cup {f.worker : f \in Range(job.input_file_mirrors \o job.output_file_mirrors)}
          \cup {f.hdfs : f \in Range(job.input_file_mirrors \o job.output_file_mirrors)}

\* i such that SubSeq(words, i, i + Len(part) - 1) = part
Holds(words, part) ==
    \E i \in 1..(Len(words) - Len(part) + 1) : SubSeq(words, i, i + Len(part) - 1) = part

DATA_WORKER == <<"d", "a", "t", "a", ".", "t", "x", "t">>
DATA_MIRROR == ALICE \o <<"/">> \o SUM \o <<"/">> \o DATA_WORKER
RESULT_MIRROR == ALICE \o <<"/">> \o SUM \o <<"/">> \o RESULT_TXT

\* C6: the string of generate_job_arg_str holds, in this order: --setup and the
\* base name of the setup script iff the JobSet has one; the --copyToLocal
\* options in the order of the input mirrors; one --copyFromLocal worker hdfs
\* for every output mirror in order; --exe and the base name of the
\* executable; --args; and the arguments, rewritten, in their order and
\* nothing else.  For the Job sum under /store/alice it holds the two copy
\* options of the example and ends with --exe e --args --in data.txt --out
\* result.txt.
C6_PartsInOrder ==
    RenderDone =>
        /\ \E K \in SUBSET (1..Len(RenderedJob.input_file_mirrors)) :
              LET head == Options(RenderedJob, RenderedSet, K)
                  args == RenderedJob.args
              IN  /\ Len(Rendered) = Len(head) + Len(args)
                  /\ SubSeq(Rendered, 1, Len(head)) = head
                  /\ \A i \in 1..Len(args) :
                        Rendered[Len(head) + i] \in Rewrites(RenderedJob, args[i])
        /\ RenderedJob.name = SUM =>
              /\ Holds(Rendered, <<<<"--copyToLocal">>, DATA_MIRROR, DATA_WORKER>>)
              /\ Holds(Rendered, <<<<"--copyFromLocal">>, RESULT_TXT, RESULT_MIRROR>>)
              /\ LET tail == <<<<"--exe">>, basename(RenderedSet.exe), <<"--args">>,
                               OPT_IN, DATA_WORKER, OPT_OUT, RESULT_TXT>>
                 IN  /\ Len(Rendered) >= Len(tail)
                     /\ SubSeq(Rendered, Len(Rendered) - Len(tail) + 1,
                               Len(Rendered)) = tail

\* The above for the Jobs that have an argument: with no argument the string
\* ends with the executable.
C6_PartsInOrderWithArgs ==
    (RenderDone /\ RenderedJob.args # <<>>) => C6_PartsInOrder

\* The pairs that follow each occurrence of a flag among the words
OptionPairs(words, flag) ==
    LET at == SelectSeq([i \in 1..Len(words) |-> i], LAMBDA i : words[i] = <<flag>>)
    IN  [k \in 1..Len(at) |-> <<words[at[k] + 1], words[at[k] + 2]>>]

\* C7: with transfer_hdfs_input the string holds one --copyToLocal hdfs worker
\* for every input mirror, those of files on HDFS included; without it, one
\* for every input mirror whose original does not begin with /hdfs and none
\* for the others.
C7_StageIn ==
    RenderDone =>
        LET mirrors == RenderedJob.input_file_mirrors
            staged == IF RenderedSet.transfer_hdfs_input THEN mirrors
                      ELSE SelectSeq(mirrors, LAMBDA f : ~OnHdfs(f.original))
        IN  OptionPairs(Rendered, "--copyToLocal")
              = [i \in 1..Len(staged) |-> <<staged[i].hdfs, staged[i].worker>>]

\* A render in each mode of a Job with an input on HDFS and one that is not
C7_Witness ==
    /\ RenderDone
    /\ ~RenderedSet.transfer_hdfs_input
    /\ \E f, g \in Range(RenderedJob.input_file_mirrors) :
          OnHdfs(f.original) /\ ~OnHdfs(g.original)
    /\ Len(OptionPairs(Rendered, "--copyToLocal"))
         < Len(RenderedJob.input_file_mirrors)

\* The arguments in the string: the words after --args
RenderedArgs ==
    LET at == IndexOf(Rendered, <<"--args">>)
    IN  IF at = 0 THEN <<>> ELSE SubSeq(Rendered, at + 1, Len(Rendered))

\* C8: an argument that is the original of an input mirror and also the
\* original or the HDFS path of an output mirror is rendered as the worker
\* name of that output mirror, whatever transfer_hdfs_input, copy_exe and
\* share_exe_setup are.
C8_OutputRuleWins ==
    RenderDone =>
        \A i \in 1..Len(RenderedJob.args) :
            \A f \in Range(RenderedJob.input_file_mirrors),
               g \in Range(RenderedJob.output_file_mirrors) :
                (/\ RenderedJob.args[i] = f.original
                 /\ RenderedJob.args[i] \in {g.original, g.hdfs})
                    => /\ Len(RenderedArgs) = Len(RenderedJob.args)
                       /\ RenderedArgs[i] = g.worker

\* C9: generate_job_arg_str changes nothing of the Job, of its JobSet or of
\* the DAG, and neither does the render inside DAGMan.add_job; the string it
\* returns is the one the previous call returned for this Job, and the one
\* DAGMan.add_job stored in the variables of the node of this Job.
C9_RenderReadOnly ==
    [][/\ last'.op \in {"Job.generate_job_arg_str", "DAGMan.add_job"}
          => jobobjs' = jobobjs /\ jobsets' = jobsets
       /\ (last'.op = "Job.generate_job_arg_str" /\ last'.err = "none")
          => /\ dag' = dag /\ fs' = fs
             /\ (RenderDone /\ last.job = last'.job) => last'.out = last.out
             /\ \A i \in 1..Len(dag) :
                   dag[i].job = last'.job
                     => EndsWith(dag[i].job_vars,
                                 <<"jobOpts=", "\"">> \o last'.out \o <<"\"">>)]_vars

\* A render, after DAGMan.add_job, of a Job whose arguments are rewritten
C9_Witness ==
    /\ RenderDone
    /\ \E i \in 1..Len(dag) : dag[i].job = last.job /\ StartsWith(dag[i].job_vars, VARS_TEXT)
    /\ RenderedArgs # RenderedJob.args
    /\ RenderedArgs # <<>>

-----------------------------------------------------------------------------
(* The renders on which C6 and C8 fail *)

\* A Job without arguments: the string ends with the executable and holds no
\* --args.
C6_Witness ==
    /\ RenderDone
    /\ RenderedJob.args = <<>>
    /\ IndexOf(Rendered, <<"--args">>) = 0
    /\ Rendered[Len(Rendered)] = basename(RenderedSet.exe)

\* A Job that names the shared executable as an argument and as an output,
\* without transfer_hdfs_input: the argument is rendered as the copy of the
\* executable under hdfs_store.
C8_Witness ==
    /\ RenderDone
    /\ RenderedSet.copy_exe /\ RenderedSet.share_exe_setup
    /\ ~RenderedSet.transfer_hdfs_input
    /\ RenderedJob.args = <<EXE>>
    /\ RenderedJob.output_files = <<EXE>>
    /\ RenderedArgs = <<path_join(STORE, basename(EXE))>>

-----------------------------------------------------------------------------
(* C10 *)

FileDone == last.op = "JobSet.generate_file_contents"

\* The lines of a text: what lies between its line ends
Lines(text) ==
    LET ends == {i \in 1..Len(text) : text[i] = NL}
        end(k) == IF k = 0 THEN 0
                  ELSE IF k > Cardinality(ends) THEN Len(text) + 1
                  ELSE CHOOSE i \in ends : Cardinality({e \in ends : e < i}) = k - 1
    IN  [k \in 1..(Cardinality(ends) + 1) |-> SubSeq(text, end(k - 1) + 1, end(k) - 1)]

QUEUE == <<"q", "u", "e", "u", "e">>
ARGUMENTS == <<"a", "r", "g", "u", "m", "e", "n", "t", "s", "=", "\"">>
DAG_LINES == <<"a", "r", "g", "u", "m", "e", "n", "t", "s", "=", "$", "(", "jobOpts", ")", NL,
               "q", "u", "e", "u", "e", NL>>

\* How many lines of a text begin with a word
LinesWith(text, word) ==
    Cardinality({k \in 1..Len(Lines(text)) : StartsWith(Lines(text)[k], word)})

Braced(text) == "{" \in Range(text)

\* C10: generate_file_contents raises IndexError when the JobSet has no Job,
\* in either mode, and returns otherwise.  Not in DAG mode, what it returns
\* ends with five lines for every Job of the JobSet, in the order they were
\* added: an empty line, the comment with the name of the Job, its arguments
\* between quotes, an empty line and queue with its quantity; these n queue
\* lines are all it adds to those of the template.  In DAG mode it ends with
\* the line arguments=$(jobOpts) and the line queue, and these are the only
\* such lines it adds, however many Jobs there are.
C10_QueueDirectives ==
    FileDone =>
        LET m == jobsets[last.on]
            n == Len(m.jobs)
            L == Lines(last.out)
        IN  /\ last.err = (IF n = 0 THEN "IndexError" ELSE "none")
            /\ (n > 0 /\ ~last.dag_mode) =>
                  /\ Len(L) > 5 * n
                  /\ LinesWith(last.out, QUEUE) = n + LinesWith(last.template, QUEUE)
                  /\ \A k \in 1..n :
                        LET job == jobobjs[m.jobs[k].job]
                            at == Len(L) - 5 * (n - k + 1)
                            arg_str == generate_job_arg_str(job, jobsets[job.manager])
                        IN  /\ StartsWith(L[at + 1], <<"#", SP>>)
                            /\ ~Braced(job.name) => L[at + 1] = <<"#", SP>> \o job.name
                            /\ StartsWith(L[at + 2], ARGUMENTS)
                            /\ EndsWith(L[at + 2], <<"\"">>)
                            /\ ~Braced(arg_str)
                                 => L[at + 2] = ARGUMENTS \o arg_str \o <<"\"">>
                            /\ L[at + 3] = <<>>
                            /\ L[at + 4] = QUEUE \o <<SP>> \o int_str(job.quantity)
                            /\ L[at + 5] = <<>>
            /\ (n > 0 /\ last.dag_mode) =>
                  /\ EndsWith(last.out, DAG_LINES)
                  /\ LinesWith(last.out, QUEUE) = 1 + LinesWith(last.template, QUEUE)
                  /\ Cardinality({i \in 1..Len(last.out) : last.out[i] = "jobOpts"}) = 1

\* The submit file, not in DAG mode, of a JobSet with three Jobs of three
\* quantities
C10_Witness ==
    /\ FileDone
    /\ last.err = "none"
    /\ ~last.dag_mode
    /\ last.template = TEMPLATE_FULL
    /\ Len(jobsets[last.on].jobs) = 3
    /\ LinesWith(last.out, QUEUE) = 3

-----------------------------------------------------------------------------
(* C11: the submission command comes last *)

Submits == {"JobSet.submit", "DAGMan.submit"}

CallsOf(calls, fn) == SelectSeq(calls, LAMBDA c : c.fn = fn)

Written(calls) == {c.a : c \in Range(CallsOf(calls, "write"))}

\* The last call issued failed, and it was a write, a makedirs or a copy.
TransferFailed ==
    /\ last.err \in {"IOError", "OSError", cp_hdfs_raises}
    /\ last.calls # <<>>
    /\ last.calls[Len(last.calls)].fn # "check_call"

\* The descriptor files and the copies a submission of this state is to be
\* preceded by: of JobSet last.on, or of the JobSets that own a Job of the DAG.
DescriptorsDue ==
    IF last.op = "JobSet.submit" THEN {jobsets[last.on].filename}
    ELSE {DAG_filename} \cup {jobsets[s].filename : s \in get_managers(dag, jobobjs)}

CopiesDue ==
    IF last.op = "JobSet.submit"
    THEN {CallsOf(JobSet_transfer_calls(jobsets[last.on], jobobjs, jobsets, {}),
                  "cp_hdfs")}
    ELSE {CallsOf(managers_transfer_calls(order, jobobjs, jobsets, {}), "cp_hdfs") :
             order \in Orders(get_managers(dag, jobobjs))}

\* C11: in every JobSet.submit and DAGMan.submit the submission command is
\* invoked at most once, as the last external call, after the descriptor files
\* have been written and after every copy of transfer_to_hdfs of the JobSet (of
\* every JobSet that owns a Job of the DAG) has been made and has succeeded;
\* and when a write, a makedirs or a copy fails it is not invoked at all.
C11_SubmitLast ==
    last.op \in Submits =>
       /\ Len(CallsOf(last.calls, "check_call")) <= 1
       /\ \A i \in 1..Len(last.calls) :
             last.calls[i].fn = "check_call" =>
                /\ i = Len(last.calls)
                /\ last.calls[i].a = (IF last.op = "JobSet.submit"
                                      THEN <<"condor_submit">>
                                      ELSE <<"condor_submit_dag">>)
                /\ DescriptorsDue \subseteq Written(SubSeq(last.calls, 1, i - 1))
                /\ CallsOf(SubSeq(last.calls, 1, i - 1), "cp_hdfs") \in CopiesDue
       /\ TransferFailed => CallsOf(last.calls, "check_call") = <<>>

\* A DAG the Jobs of which two JobSets own is submitted, after a copy.
C11_Witness ==
    /\ last.op = "DAGMan.submit"
    /\ last.err = "none"
    /\ Cardinality(get_managers(dag, jobobjs)) = 2
    /\ CallsOf(last.calls, "cp_hdfs") # <<>>
    /\ CallsOf(last.calls, "check_call") # <<>>

-----------------------------------------------------------------------------
(* C12: nothing is written, copied or submitted before validation fails *)

DagEntries == {"DAGMan.write", "DAGMan.submit"}

\* The call in progress, or the last call made, is a DAGMan.write or
\* DAGMan.submit on a graph with a dangling prerequisite or a cycle, or a
\* JobSet.submit on a JobSet without jobs.
InvalidSubmission(l, d, sets) ==
    \/ l.op \in DagEntries /\ ~(NamesResolve(d) /\ Acyclic(d))
    \/ l.op = "JobSet.submit" /\ sets[l.on].jobs = <<>>

\* C12: a step of DAGMan.write or DAGMan.submit on a graph with a dangling
\* prerequisite or a cyclic dependency, and a JobSet.submit on a JobSet without
\* jobs, issues no external call (no descriptor write, no makedirs, no copy, no
\* submission command), leaves the files as they are and never gets to the
\* opening of the DAG file; when it ends, it ends with the validation error.
C12_NoEffectBeforeValidationFailure ==
    [][InvalidSubmission(last', dag', jobsets') =>
          /\ last'.calls = <<>>
          /\ fs' = fs
          /\ pc'.at # "DAGMan.write"
          /\ pc'.at = "idle" =>
                last'.err \in (IF last'.op = "JobSet.submit" THEN {"IndexError"}
                               ELSE {"KeyError", "RuntimeError"})]_vars

\* DAGMan.submit has ended with the error of a cycle on a graph the Jobs of
\* which have files to copy.
C12_Witness ==
    /\ last.op = "DAGMan.submit"
    /\ last.err = "RuntimeError"
    /\ NamesResolve(dag) /\ ~Acyclic(dag)
    /\ pc.at = "idle"
    /\ \E s \in get_managers(dag, jobobjs) :
          JobSet_transfer_calls(jobsets[s], jobobjs, jobsets, fs.dirs) # <<>>

-----------------------------------------------------------------------------
(* C13: a Job is attached once *)

\* The JobSets whose mapping holds Job j
StoredIn(j) == {s \in SetIds : \E i \in 1..Len(jobsets[s].jobs) : jobsets[s].jobs[i].job = j}

\* C13: over any sequence of JobSet.add_job calls, every Job stored in the
\* mapping of a JobSet has that JobSet as its owner, and a Job that has an owner
\* has exactly one mirror for each of its input files and one for each of its
\* output files (the mirror lists are derived once and never extended).
C13_AttachOnce ==
    \A j \in DOMAIN jobobjs :
        /\ \A s \in StoredIn(j) : jobobjs[j].manager = s
        /\ jobobjs[j].manager # NoSet =>
              /\ Len(jobobjs[j].input_file_mirrors) = Len(jobobjs[j].input_files)
              /\ Len(jobobjs[j].output_file_mirrors) = Len(jobobjs[j].output_files)

\* A Job added to one JobSet and then to the other: both store it, the second
\* owns it, and its mirrors were derived twice.
C13_Witness ==
    /\ last.op = "JobSet.add_job" /\ last.err = "none"
    /\ StoredIn(last.job) = SetIds
    /\ Len(jobobjs[last.job].output_file_mirrors) > Len(jobobjs[last.job].output_files)

-----------------------------------------------------------------------------
(* C14: the transfer lists of the JobSet in the submit file *)

COMMA == <<",">>

\* C14: generate_file_contents puts the comma-joined transfer_input_files of
\* the JobSet in the place of {TRANSFER_INPUT_FILES} and the comma-joined
\* transfer_output_files in the place of {TRANSFER_OUTPUT_FILES}: of the
\* template with the lines i={TRANSFER_INPUT_FILES} and
\* t={TRANSFER_OUTPUT_FILES}, the text returned has the lines i=<inputs> and
\* t=<outputs>.
C14_TransferListsRendered ==
    (FileDone /\ last.err = "none" /\ last.template = TEMPLATE_FULL) =>
        LET m == jobsets[last.on]
            L == Lines(last.out)
        IN  /\ L[5] = <<"i", "=">> \o str_join(COMMA, m.transfer_input_files)
            /\ L[6] = <<"t", "=">> \o str_join(COMMA, m.transfer_output_files)

\* The submit file of a JobSet made with both lists has been generated.
C14_Witness ==
    /\ FileDone /\ last.err = "none" /\ last.template = TEMPLATE_FULL
    /\ jobsets[last.on].transfer_input_files = <<LIST_IN, USER_FILE>>
    /\ jobsets[last.on].transfer_output_files = <<LIST_OUT>>
    /\ Lines(last.out)[6] = <<"t", "=">> \o LIST_IN \o COMMA \o USER_FILE

-----------------------------------------------------------------------------
(* C15: the copies of Job.transfer_to_hdfs *)

\* The input mirrors a copy is required for: those whose mirror path differs
\* from the original, but for the executable and the setup script of an owner
\* that shares them.
CopyRequired(job) ==
    IF job.manager = NoSet THEN <<>>
    ELSE LET m == jobsets[job.manager]
         IN  SelectSeq(job.input_file_mirrors,
                       LAMBDA f : /\ f.hdfs # f.original
                                  /\ ~(m.share_exe_setup
                                       /\ (f.original = m.exe
                                           \/ f.original = m.setup_script)))

IsPrefix(p, q) == Len(p) <= Len(q) /\ p = SubSeq(q, 1, Len(p))

\* C15: a Job.transfer_to_hdfs that ends without error has issued, in the
\* order of the mirrors, one copy from the original to the mirror path for
\* every input mirror a copy is required for, and no other copy (one that an
\* external call ends has issued the first of them); when a copy is required
\* the only call before the first copy is the creation of the mirror directory
\* of the Job, made exactly when the directory did not exist, so that it exists
\* when the copies are made; when no copy is required no call is made and no
\* directory is created.
C15_TransferCopies ==
    [][last'.op = "Job.transfer_to_hdfs" =>
          LET job == jobobjs[last'.job]
              req == CopyRequired(job)
              due == [i \in 1..Len(req) |-> cp_hdfs(req[i].original, req[i].hdfs)]
              copies == CallsOf(last'.calls, "cp_hdfs")
              before == IF job.hdfs_mirror_dir \in fs.dirs THEN <<>>
                        ELSE <<makedirs(job.hdfs_mirror_dir)>>
          IN  /\ IsPrefix(copies, due)
              /\ last'.err = "none" => copies = due
              /\ req # <<>> =>
                    /\ IsPrefix(last'.calls, before \o due)
                    /\ last'.err = "none" => job.hdfs_mirror_dir \in fs'.dirs
              /\ req = <<>> => last'.calls = <<>> /\ fs' = fs]_vars

\* A complete transfer that made the directory and two copies, for a Job with
\* a mirror that needs no copy.
C15_Witness ==
    /\ last.op = "Job.transfer_to_hdfs" /\ last.err = "none"
    /\ Len(last.calls) = 3
    /\ last.calls[1].fn = "os.makedirs"
    /\ Len(jobobjs[last.job].input_file_mirrors) > 2

-----------------------------------------------------------------------------
(* C16: the prerequisites DAGMan.add_job stores *)

NoRepeats(l) == \A i, k \in 1..Len(l) : l[i] = l[k] => i = k

\* C16: the list of prerequisite names DAGMan.add_job stores on a node names
\* each Job that `requires` refers to exactly once: no name is in it twice.
C16_PrerequisitesOnce ==
    \A i \in 1..Len(dag) :
        dag[i].requires # NoneList => NoRepeats(dag[i].requires)

\* add_job has returned without error for a list that names one Job twice.
C16_Witness ==
    /\ last.op = "DAGMan.add_job" /\ last.err = "none"
    /\ dag # <<>>
    /\ dag[Len(dag)].requires = <<A, A>>

-----------------------------------------------------------------------------
(* C17: the checks end *)

\* C17: check_job_acyclic(n), and generate_dag_contents with the checks it
\* makes for every node, end: a call that has been entered returns or raises.
C17_ValidationEnds == (pc.at # "idle") ~> (pc.at = "idle")

\* check_job_acyclic is in its loop for a node that is on no cycle, in a DAG
\* whose names all resolve, and holds parents that are on a cycle.
C17_Witness ==
    /\ pc.at = "check_job_acyclic"
    /\ RequiresStored(dag) /\ NamesResolve(dag)
    /\ ~OnCycle(dag, pc.job_name)
    /\ \E p \in Range(pc.parents) : OnCycle(dag, p)

-----------------------------------------------------------------------------
(* C18: an add_job that raises stores nothing *)

\* The last call was an add_job that raised something other than the error of
\* a name already present.
AddFailed(op) == last.op = op /\ last.err \notin {"none", "KeyError"}

\* C18: after a JobSet.add_job or a DAGMan.add_job that raised for another
\* reason than a name already present, the name of the Job is not a key of the
\* container, and no node of the DAG is without its list of prerequisites.
C18_FailedAddStoresNothing ==
    /\ AddFailed("JobSet.add_job") => last.name \notin Keys(jobsets[last.on].jobs)
    /\ AddFailed("DAGMan.add_job") => last.name \notin Keys(dag)
    /\ RequiresStored(dag)

\* The corrected Job is refused for its name, which the JobSet holds from the
\* add_job that raised.
C18_Witness ==
    /\ last.op = "JobSet.add_job" /\ last.on = "s1" /\ last.job = "j3"
    /\ last.err = "KeyError"
    /\ jobobjs["j1"].manager = "s1"
    /\ jobobjs["j1"].input_file_mirrors = <<>>

-----------------------------------------------------------------------------
(* C19: the arguments of the Jobs in the submit file *)

\* C19: not in DAG mode, the text generate_file_contents returns has for every
\* Job of the JobSet the line arguments="<s>", s being what
\* generate_job_arg_str returns for that Job, whatever the arguments hold; and
\* the line of the template that is {OTHER_ARGS} alone is the text of the
\* other arguments of the JobSet, whatever their values hold.
C19_ArgumentsVerbatim ==
    (FileDone /\ last.err = "none" /\ ~last.dag_mode) =>
        LET m == jobsets[last.on]
            n == Len(m.jobs)
            L == Lines(last.out)
        IN  /\ \A k \in 1..n :
                  LET job == jobobjs[m.jobs[k].job]
                      at == Len(L) - 5 * (n - k + 1)
                  IN  L[at + 2] = ARGUMENTS
                                  \o generate_job_arg_str(job, jobsets[job.manager])
                                  \o <<"\"">>
            /\ (last.template = TEMPLATE_FULL /\ Truthy(other_args_str(m))) =>
                  L[7] = other_args_str(m)

\* The submit file of a JobSet one Job of which has the argument {x}.
C19_Witness ==
    /\ FileDone /\ last.err = "none" /\ ~last.dag_mode
    /\ \E k \in 1..Len(jobsets[last.on].jobs) :
          LET job == jobobjs[jobsets[last.on].jobs[k].job]
              L == Lines(last.out)
          IN  /\ BRACED \in Range(job.args)
              /\ L[Len(L) - 5 * (Len(jobsets[last.on].jobs) - k + 1) + 2]
                   # ARGUMENTS \o generate_job_arg_str(job, jobsets[job.manager])
                               \o <<"\"">>

-----------------------------------------------------------------------------
(* C20: what a Job stages in has been transferred *)

\* The files the copies among some calls have made
CopiedTo(calls, dirs) ==
    {cp_hdfs_dest(c, dirs) : c \in Range(CallsOf(calls, "cp_hdfs"))}

\* The sources of the --copyToLocal options of the string of a Job
StagedSources(job) ==
    {p[1] : p \in Range(OptionPairs(
                str_split(generate_job_arg_str(job, jobsets[job.manager])),
                "--copyToLocal"))}

\* C20: after a JobSet.transfer_to_hdfs that ended without error, the source of
\* every --copyToLocal option of the string of every Job of the JobSet is an
\* input file of the Job that is on HDFS as it is, or a file that a copy of
\* this transfer has made.
C20_StagedWasTransferred ==
    (last.op = "JobSet.transfer_to_hdfs" /\ last.err = "none") =>
        \A k \in 1..Len(jobsets[last.on].jobs) :
            LET job == jobobjs[jobsets[last.on].jobs[k].job]
            IN  \A src \in StagedSources(job) :
                   \/ src \in Range(job.input_files) /\ OnHdfs(src)
                   \/ src \in CopiedTo(last.calls, fs.dirs)

\* A transfer has ended without error for a JobSet that shares an executable
\* it does not copy, a Job of which names the executable among its inputs.
C20_Witness ==
    /\ last.op = "JobSet.transfer_to_hdfs" /\ last.err = "none"
    /\ jobsets[last.on].share_exe_setup /\ ~jobsets[last.on].copy_exe
    /\ \E k \in 1..Len(jobsets[last.on].jobs) :
          LET job == jobobjs[jobsets[last.on].jobs[k].job]
          IN  /\ EXE \in Range(job.input_files)
              /\ path_join(STORE, basename(EXE)) \in StagedSources(job)
              /\ path_join(STORE, basename(EXE)) \notin CopiedTo(last.calls, fs.dirs)

====
